---- MODULE Spec2Model ----
(***************************************************************************)
(* Model of the staging engine of aws-samples/accelerated-data-lake.       *)
(*                                                                         *)
(* Python strings are modelled as sequences of one-character strings, so   *)
(* that splitting, searching and regular-expression matching are computed  *)
(* character by character as the Python code computes them.                *)
(***************************************************************************)
EXTENDS Integers, Sequences, FiniteSets, TLC

VARIABLES
    event,            \* the pipeline event handed from step to step
    dataSourceTable,  \* items of the DynamoDB data source table, in scan order
    pc,               \* position of the lambda under study: "start" | "done"
    raised,           \* exception raised by the lambda, "None" when it returned
    wildcard_depths,  \* successive values of first_wildcard_depth in the loop
    stagingBucket,    \* objects of the staging bucket: key, metadata, tags
    cache,            \* lastRequestId values held by the S3 cache table
    executions,       \* started workflow executions, in start order
    invocations,      \* the invocations of the start lambda and their locals
    dataCatalog,      \* items put into the data catalog table, in put order
    notifications,    \* SNS messages published, in publish order
    state,            \* the workflow's state data, the input of the next step
    rawBucket,        \* objects of the raw bucket
    function_name,    \* the lambda that ran last
    es,               \* the locals of post_to_es and the responses it got
    failedBucket,     \* objects of the failed bucket
    scan_positions    \* successive values of start_position in the JSON scan

\* the state of the start lambda and of the services it alone talks to
startVars == <<cache, executions, invocations>>

\* the state of the data catalog table and of the SNS topics
catalogVars == <<dataCatalog, notifications>>

\* the state of the workflow execution and of the raw bucket
workflowVars == <<state, rawBucket>>

\* the state only the Elasticsearch lambda, the failed-file lambda and the
\* JSON scan change
laterVars == <<es, failedBucket, scan_positions>>

vars == <<event, dataSourceTable, pc, raised, wildcard_depths, stagingBucket,
          cache, executions, invocations, dataCatalog, notifications,
          state, rawBucket, function_name, es, failedBucket, scan_positions>>

----------------------------------------------------------------------------
(* Bounds *)

MaxDataSources == 3

MaxPathLen == 3

----------------------------------------------------------------------------
(* Characters *)

LowerCase == {"a","b","c","d","e","f","g","h","i","j","k","l","m",
              "n","o","p","q","r","s","t","u","v","w","x","y","z"}
UpperCase == {"A","B","C","D","E","F","G","H","I","J","K","L","M",
              "N","O","P","Q","R","S","T","U","V","W","X","Y","Z"}
Digits == {"0","1","2","3","4","5","6","7","8","9"}
WhiteSpace == {" ", "\t", "\n", "\r", "\f"}

\* \w of Python's re on the ASCII characters
WordChars == LowerCase \cup UpperCase \cup Digits \cup {"_"}

\* the character class [a-zA-Z0-9-_.*'()+] of _get_first_wildcard_depth
LiteralSafeChars ==
    LowerCase \cup UpperCase \cup Digits
        \cup {"-", "_", ".", "*", "'", "(", ")", "+"}

Quantifiers == {"*", "+", "?"}

----------------------------------------------------------------------------
(* Python string operations *)

\* str.split(sep) for a one-character separator
RECURSIVE SplitFrom(_, _, _, _)
SplitFrom(s, sep, i, cur) ==
    IF i > Len(s) THEN <<cur>>
    ELSE IF s[i] = sep THEN <<cur>> \o SplitFrom(s, sep, i + 1, <<>>)
    ELSE SplitFrom(s, sep, i + 1, Append(cur, s[i]))

Split(s, sep) == SplitFrom(s, sep, 1, <<>>)

----------------------------------------------------------------------------
(* re.fullmatch, for patterns made of literal characters, '.', the escapes *)
(* \w \W \d \D \s \S (any other escaped character is itself) and the       *)
(* quantifiers * + ? applied to the preceding atom.                        *)

AtomLen(p, i) == IF p[i] = "\\" THEN 2 ELSE 1

AtomMatches(p, i, c) ==
    IF p[i] = "\\"
    THEN CASE p[i + 1] = "w" -> c \in WordChars
           [] p[i + 1] = "W" -> c \notin WordChars
           [] p[i + 1] = "d" -> c \in Digits
           [] p[i + 1] = "D" -> c \notin Digits
           [] p[i + 1] = "s" -> c \in WhiteSpace
           [] p[i + 1] = "S" -> c \notin WhiteSpace
           [] OTHER -> c = p[i + 1]
    ELSE IF p[i] = "." THEN c # "\n"
    ELSE c = p[i]

RECURSIVE MatchFrom(_, _, _, _)
MatchFrom(p, i, s, j) ==
    IF i > Len(p) THEN j > Len(s)
    ELSE
      LET n == i + AtomLen(p, i)
          q == IF n <= Len(p) /\ p[n] \in Quantifiers THEN p[n] ELSE "1"
          one == j <= Len(s) /\ AtomMatches(p, i, s[j])
      IN CASE q = "1" -> one /\ MatchFrom(p, n, s, j + 1)
           [] q = "*" -> MatchFrom(p, n + 1, s, j)
                         \/ (one /\ MatchFrom(p, i, s, j + 1))
           [] q = "+" -> one /\ (MatchFrom(p, n + 1, s, j + 1)
                                 \/ MatchFrom(p, i, s, j + 1))
           [] q = "?" -> MatchFrom(p, n + 1, s, j)
                         \/ (one /\ MatchFrom(p, n + 1, s, j + 1))

\* re.fullmatch(pattern, string) is not None
FullMatch(p, s) == MatchFrom(p, 1, s, 1)

\* re.compile accepts the pattern: no quantifier without an atom to repeat,
\* no quantifier on a quantifier, no trailing backslash
RECURSIVE ValidFrom(_, _)
ValidFrom(p, i) ==
    IF i > Len(p) THEN TRUE
    ELSE IF p[i] \in Quantifiers THEN FALSE
    ELSE IF p[i] = "\\" /\ i = Len(p) THEN FALSE
    ELSE LET n == i + AtomLen(p, i)
         IN IF n <= Len(p) /\ p[n] \in Quantifiers
            THEN ValidFrom(p, n + 1)
            ELSE ValidFrom(p, n)

ValidPattern(p) == ValidFrom(p, 1)

----------------------------------------------------------------------------
(* getFileType.py *)

\* variant: the class repeated with * instead of +, an empty folder is literal
IsLiteralFolder_EmptyIsLiteral(folder) ==
    \A i \in 1..Len(folder) : folder[i] \in LiteralSafeChars

\* re.fullmatch(r"^[a-zA-Z0-9-_.*'()+]+$", folder) is not None
IsLiteralFolder(folder) ==
    /\ Len(folder) >= 1
    /\ \A i \in 1..Len(folder) : folder[i] \in LiteralSafeChars

\* variant: a pattern without wildcards gets the depth past its last folder
get_first_wildcard_depth_NoRaise(data_source_folders) ==
    LET wild == {d \in 0..(Len(data_source_folders) - 1) :
                    ~IsLiteralFolder(data_source_folders[d + 1])}
    IN IF wild = {}
       THEN [error |-> "None", value |-> Len(data_source_folders)]
       ELSE [error |-> "None",
             value |-> CHOOSE d \in wild : \A e \in wild : d <= e]

\* _get_first_wildcard_depth: [error |-> "None", value |-> depth] or the
\* exception "fileNamePattern does not include wildcards"
get_first_wildcard_depth(data_source_folders) ==
    LET wild == {d \in 0..(Len(data_source_folders) - 1) :
                    ~IsLiteralFolder(data_source_folders[d + 1])}
    IN IF wild = {}
       THEN [error |-> "NoWildcards", value |-> -1]
       ELSE [error |-> "None",
             value |-> CHOOSE d \in wild : \A e \in wild : d <= e]

\* _filter_matching_data_sources
RECURSIVE filter_matching_data_sources(_, _)
filter_matching_data_sources(key, data_source_details) ==
    IF data_source_details = <<>> THEN <<>>
    ELSE LET data_source == Head(data_source_details)
             rest == filter_matching_data_sources(
                         key, Tail(data_source_details))
         IN IF FullMatch(data_source.fileSettings.fileNamePattern, key)
            THEN <<data_source>> \o rest
            ELSE rest

\* local variables of _get_most_specific_filetype before the loop; -1 and
\* "None" stand for Python's None
LoopInit ==
    [deepest_folder_depth |-> -1,
     deepest_wildcard |-> -1,
     deepest_wildcard_count |-> 0,
     deepest_wildcard_filetype |-> "None",
     error |-> "None",
     depths |-> <<>>]

\* variant: the comparison reversed, the shallowest first wildcard wins
LoopBody_ShallowestWins(st, data_source) ==
    LET data_source_folders ==
            Split(data_source.fileSettings.fileNamePattern, "/")
        data_source_filetype == data_source.fileType
        folder_depth == Len(data_source_folders)
        first == get_first_wildcard_depth(data_source_folders)
        first_wildcard_depth == first.value
        st1 == IF st.deepest_folder_depth = -1
               THEN [st EXCEPT !.deepest_folder_depth = folder_depth]
               ELSE st
    IN IF st.deepest_folder_depth # -1
          /\ folder_depth # st.deepest_folder_depth
       THEN [st EXCEPT !.error = "InconsistentFolderDepths"]
       ELSE IF first.error # "None"
       THEN [st1 EXCEPT !.error = first.error]
       ELSE IF st1.deepest_wildcard = -1
               \/ first_wildcard_depth < st1.deepest_wildcard
       THEN [st1 EXCEPT !.deepest_wildcard = first_wildcard_depth,
                        !.deepest_wildcard_count = 1,
                        !.deepest_wildcard_filetype = data_source_filetype,
                        !.depths = Append(@, first_wildcard_depth)]
       ELSE IF first_wildcard_depth = st1.deepest_wildcard
       THEN [st1 EXCEPT !.deepest_wildcard_count = @ + 1,
                        !.deepest_wildcard_filetype = "None",
                        !.depths = Append(@, first_wildcard_depth)]
       ELSE [st1 EXCEPT !.depths = Append(@, first_wildcard_depth)]

\* variant: a tie at the deepest wildcard is not counted
LoopBody_TieKeepsFirst(st, data_source) ==
    LET data_source_folders ==
            Split(data_source.fileSettings.fileNamePattern, "/")
        data_source_filetype == data_source.fileType
        folder_depth == Len(data_source_folders)
        first == get_first_wildcard_depth(data_source_folders)
        first_wildcard_depth == first.value
        st1 == IF st.deepest_folder_depth = -1
               THEN [st EXCEPT !.deepest_folder_depth = folder_depth]
               ELSE st
    IN IF st.deepest_folder_depth # -1
          /\ folder_depth # st.deepest_folder_depth
       THEN [st EXCEPT !.error = "InconsistentFolderDepths"]
       ELSE IF first.error # "None"
       THEN [st1 EXCEPT !.error = first.error]
       ELSE IF st1.deepest_wildcard = -1
               \/ first_wildcard_depth > st1.deepest_wildcard
       THEN [st1 EXCEPT !.deepest_wildcard = first_wildcard_depth,
                        !.deepest_wildcard_count = 1,
                        !.deepest_wildcard_filetype = data_source_filetype,
                        !.depths = Append(@, first_wildcard_depth)]
       ELSE IF first_wildcard_depth = st1.deepest_wildcard
       THEN [st1 EXCEPT !.depths = Append(@, first_wildcard_depth)]
       ELSE [st1 EXCEPT !.depths = Append(@, first_wildcard_depth)]

\* variant: the folder depths of the data sources are not compared
LoopBody_NoFolderDepthCheck(st, data_source) ==
    LET data_source_folders ==
            Split(data_source.fileSettings.fileNamePattern, "/")
        data_source_filetype == data_source.fileType
        folder_depth == Len(data_source_folders)
        first == get_first_wildcard_depth(data_source_folders)
        first_wildcard_depth == first.value
        st1 == IF st.deepest_folder_depth = -1
               THEN [st EXCEPT !.deepest_folder_depth = folder_depth]
               ELSE st
    IN IF FALSE
       THEN [st EXCEPT !.error = "InconsistentFolderDepths"]
       ELSE IF first.error # "None"
       THEN [st1 EXCEPT !.error = first.error]
       ELSE IF st1.deepest_wildcard = -1
               \/ first_wildcard_depth > st1.deepest_wildcard
       THEN [st1 EXCEPT !.deepest_wildcard = first_wildcard_depth,
                        !.deepest_wildcard_count = 1,
                        !.deepest_wildcard_filetype = data_source_filetype,
                        !.depths = Append(@, first_wildcard_depth)]
       ELSE IF first_wildcard_depth = st1.deepest_wildcard
       THEN [st1 EXCEPT !.deepest_wildcard_count = @ + 1,
                        !.deepest_wildcard_filetype = "None",
                        !.depths = Append(@, first_wildcard_depth)]
       ELSE [st1 EXCEPT !.depths = Append(@, first_wildcard_depth)]

\* one iteration of the for loop of _get_most_specific_filetype
LoopBody(st, data_source) ==
    LET data_source_folders ==
            Split(data_source.fileSettings.fileNamePattern, "/")
        data_source_filetype == data_source.fileType
        folder_depth == Len(data_source_folders)
        first == get_first_wildcard_depth(data_source_folders)
        first_wildcard_depth == first.value
        st1 == IF st.deepest_folder_depth = -1
               THEN [st EXCEPT !.deepest_folder_depth = folder_depth]
               ELSE st
    IN IF st.deepest_folder_depth # -1
          /\ folder_depth # st.deepest_folder_depth
       THEN [st EXCEPT !.error = "InconsistentFolderDepths"]
       ELSE IF first.error # "None"
       THEN [st1 EXCEPT !.error = first.error]
       ELSE IF st1.deepest_wildcard = -1
               \/ first_wildcard_depth > st1.deepest_wildcard
       THEN [st1 EXCEPT !.deepest_wildcard = first_wildcard_depth,
                        !.deepest_wildcard_count = 1,
                        !.deepest_wildcard_filetype = data_source_filetype,
                        !.depths = Append(@, first_wildcard_depth)]
       ELSE IF first_wildcard_depth = st1.deepest_wildcard
       THEN [st1 EXCEPT !.deepest_wildcard_count = @ + 1,
                        !.deepest_wildcard_filetype = "None",
                        !.depths = Append(@, first_wildcard_depth)]
       ELSE [st1 EXCEPT !.depths = Append(@, first_wildcard_depth)]

\* the for loop, left at the first exception
RECURSIVE Loop(_, _)
Loop(st, matching_data_sources) ==
    IF matching_data_sources = <<>> \/ st.error # "None" THEN st
    ELSE Loop(LoopBody(st, Head(matching_data_sources)),
              Tail(matching_data_sources))

\* variant: a single matching data source goes through the loop as well
get_most_specific_filetype_NoSingleCase(key, matching_data_sources) ==
    IF Len(matching_data_sources) = 0
    THEN [error |-> "NoMatch", value |-> "None", depths |-> <<>>]
    ELSE IF FALSE
    THEN [error |-> "None", value |-> matching_data_sources[1].fileType,
          depths |-> <<>>]
    ELSE LET st == Loop(LoopInit, matching_data_sources)
         IN IF st.error # "None"
            THEN [error |-> st.error, value |-> "None", depths |-> st.depths]
            ELSE IF st.deepest_wildcard_count = 1
            THEN [error |-> "None", value |-> st.deepest_wildcard_filetype,
                  depths |-> st.depths]
            ELSE [error |-> "AmbiguousDepth", value |-> "None",
                  depths |-> st.depths]

\* _get_most_specific_filetype: [error, value, depths]
get_most_specific_filetype(key, matching_data_sources) ==
    IF Len(matching_data_sources) = 0
    THEN [error |-> "NoMatch", value |-> "None", depths |-> <<>>]
    ELSE IF Len(matching_data_sources) = 1
    THEN [error |-> "None", value |-> matching_data_sources[1].fileType,
          depths |-> <<>>]
    ELSE LET st == Loop(LoopInit, matching_data_sources)
         IN IF st.error # "None"
            THEN [error |-> st.error, value |-> "None", depths |-> st.depths]
            ELSE IF st.deepest_wildcard_count = 1
            THEN [error |-> "None", value |-> st.deepest_wildcard_filetype,
                  depths |-> st.depths]
            ELSE [error |-> "AmbiguousDepth", value |-> "None",
                  depths |-> st.depths]

\* dict.update of one field: the field is added or overwritten
Update(d, k, v) == [f \in DOMAIN d \cup {k} |-> IF f = k THEN v ELSE d[f]]

\* the empty dict
NoFields == [f \in {} |-> f]

\* an object of the raw bucket as head_object and get_object show it
RawObject(key, metadata, last_modified, body) ==
    [Key |-> key, Metadata |-> metadata, ContentLength |-> Len(body),
     LastModified |-> last_modified, TagSet |-> {}, Body |-> body]

\* the datetime 2024-03-17 10:00:00+00:00
LastModified_20240317 ==
    [year |-> 2024, month |-> 3, day |-> 17, hour |-> 10, minute |-> 0,
     second |-> 0, microsecond |-> 0, utcoffset |-> 0]

\* the content of a small file
Body_small == <<"a", ",", "b">>

\* variant: the event is updated before the result is known to be a type
get_file_type_UpdatesOnError ==
    /\ pc = "start"
    /\ LET key == event["fileDetails"].key
           matching_data_sources ==
               filter_matching_data_sources(key, dataSourceTable)
           filetype == get_most_specific_filetype(key, matching_data_sources)
       IN /\ raised' = filetype.error
          /\ wildcard_depths' = filetype.depths
          /\ event' = Update(event, "fileType", filetype.value)
    /\ pc' = "done"
    /\ function_name' = "getFileType"
    /\ UNCHANGED laterVars
    /\ UNCHANGED <<dataSourceTable, stagingBucket, startVars, catalogVars,
                   workflowVars>>

\* get_file_type, as run by lambda_handler
get_file_type ==
    /\ pc = "start"
    /\ LET key == event["fileDetails"].key
           matching_data_sources ==
               filter_matching_data_sources(key, dataSourceTable)
           filetype == get_most_specific_filetype(key, matching_data_sources)
       IN /\ raised' = filetype.error
          /\ wildcard_depths' = filetype.depths
          /\ event' = IF filetype.error = "None"
                      THEN Update(event, "fileType", filetype.value)
                      ELSE event
    /\ pc' = "done"
    /\ function_name' = "getFileType"
    /\ UNCHANGED laterVars
    /\ UNCHANGED <<dataSourceTable, stagingBucket, startVars, catalogVars,
                   workflowVars>>

----------------------------------------------------------------------------
(* Inputs of the file type resolution *)

fixed == <<"f","i","x","e","d">>
wplus == <<"\\","w","+">>
Splus == <<"\\","S","+">>

Pattern_A  == fixed \o <<"/","*","/","x">>            \* fixed/*/x
Pattern_B  == fixed \o <<"/","y","/","*">>            \* fixed/y/*
Pattern_W0 == wplus \o <<"/","y","/","x">>            \* \w+/y/x
Pattern_W1 == fixed \o <<"/">> \o wplus \o <<"/","x">>  \* fixed/\w+/x
Pattern_W2 == fixed \o <<"/","y","/">> \o wplus       \* fixed/y/\w+
Pattern_V2 == fixed \o <<"/","y","/","\\","w">>       \* fixed/y/\w
Pattern_L  == fixed \o <<"/","y","/","x">>            \* fixed/y/x
Pattern_D  == fixed \o <<"/",".","*","/","x">>        \* fixed/.*/x
Pattern_S  == fixed \o <<"/">> \o Splus               \* fixed/\S+
Pattern_R1 == <<"/">> \o wplus \o <<"/","x">>         \* /\w+/x
Pattern_R2 == <<"/","y","/">> \o wplus                \* /y/\w+

DataSources ==
    { [fileType |-> "typeA",  fileSettings |-> [fileNamePattern |-> Pattern_A]],
      [fileType |-> "typeB",  fileSettings |-> [fileNamePattern |-> Pattern_B]],
      [fileType |-> "typeW0", fileSettings |-> [fileNamePattern |-> Pattern_W0]],
      [fileType |-> "typeW1", fileSettings |-> [fileNamePattern |-> Pattern_W1]],
      [fileType |-> "typeW2", fileSettings |-> [fileNamePattern |-> Pattern_W2]],
      [fileType |-> "typeV2", fileSettings |-> [fileNamePattern |-> Pattern_V2]],
      [fileType |-> "typeL",  fileSettings |-> [fileNamePattern |-> Pattern_L]],
      [fileType |-> "typeD",  fileSettings |-> [fileNamePattern |-> Pattern_D]],
      [fileType |-> "typeS",  fileSettings |-> [fileNamePattern |-> Pattern_S]],
      [fileType |-> "typeR1", fileSettings |-> [fileNamePattern |-> Pattern_R1]],
      [fileType |-> "typeR2", fileSettings |-> [fileNamePattern |-> Pattern_R2]] }

Key_fyx == fixed \o <<"/","y","/","x">>               \* fixed/y/x
Key_yx  == <<"/","y","/","x">>                        \* /y/x
Key_o   == <<"o","/","x">>                            \* o/x

Keys == {Key_fyx, Key_yx, Key_o}

\* scan results: every list of at most MaxDataSources distinct data sources
Tables ==
    UNION { { t \in [1..n -> DataSources] :
                \A i, j \in 1..n : i # j => t[i].fileType # t[j].fileType }
            : n \in 0..MaxDataSources }

BaseName(key) == LET parts == Split(key, "/") IN parts[Len(parts)]

InitFileType ==
    /\ dataSourceTable \in Tables
    /\ \A i \in 1..Len(dataSourceTable) :
          ValidPattern(dataSourceTable[i].fileSettings.fileNamePattern)
    /\ \E key \in Keys :
          /\ event = [fileDetails |->
                         [bucket |-> "raw", key |-> key,
                          fileName |-> BaseName(key)],
                      settings |-> [dataSourceTableName |-> "dataSources"]]
          /\ rawBucket = {RawObject(key, NoFields, LastModified_20240317,
                                    Body_small)}
    /\ state = event
    /\ function_name = "None"
    /\ pc = "start"
    /\ raised = "None"
    /\ wildcard_depths = <<>>
    /\ stagingBucket = {}
    /\ cache = {}
    /\ executions = <<>>
    /\ invocations = <<>>
    /\ dataCatalog = <<>>
    /\ notifications = <<>>
    /\ es = NoFields
    /\ failedBucket = {}
    /\ scan_positions = <<>>

NextFileType == get_file_type

SpecFileType == InitFileType /\ [][NextFileType]_vars

----------------------------------------------------------------------------
(* copyFileFromRawToStaging.py *)

DigitSeq == <<"0","1","2","3","4","5","6","7","8","9">>

DigitVal(c) == (CHOOSE n \in 1..10 : DigitSeq[n] = c) - 1

\* int() of the decimal digits s[from..to]
RECURSIVE ParseInt(_, _, _)
ParseInt(s, from, to) ==
    IF to < from THEN 0
    ELSE 10 * ParseInt(s, from, to - 1) + DigitVal(s[to])

\* a number zero-padded to two and to four digits, as %m and %Y print it
Pad2(n) == <<DigitSeq[((n \div 10) % 10) + 1], DigitSeq[(n % 10) + 1]>>
Pad4(n) == Pad2(n \div 100) \o Pad2(n % 100)

RECURSIVE StartsWithAt(_, _, _)
\* s[i:].startswith(t)
StartsWithAt(s, i, t) ==
    \/ t = <<>>
    \/ /\ i <= Len(s)
       /\ s[i] = Head(t)
       /\ StartsWithAt(s, i + 1, Tail(t))

\* str.replace(old, new): non-overlapping occurrences, found left to right
RECURSIVE ReplaceFrom(_, _, _, _)
ReplaceFrom(s, old, new, i) ==
    IF i > Len(s) THEN <<>>
    ELSE IF StartsWithAt(s, i, old)
    THEN new \o ReplaceFrom(s, old, new, i + Len(old))
    ELSE <<s[i]>> \o ReplaceFrom(s, old, new, i + 1)

Replace(s, old, new) == ReplaceFrom(s, old, new, 1)

\* str.rfind of a character, as a zero-based index, -1 when absent
RFind(s, c) ==
    LET at == {i \in 1..Len(s) : s[i] = c}
    IN IF at = {} THEN -1
       ELSE (CHOOSE i \in at : \A j \in at : j <= i) - 1

\* _get_folder_path_from_key
get_folder_path_from_key(key) ==
    LET last_folder_ends == RFind(key, "/")
    IN IF last_folder_ends = -1 THEN <<>>
       ELSE SubSeq(key, 1, last_folder_ends + 1)

\* the end of the longest run of characters of a class that starts at i
RECURSIVE RunEnd(_, _, _)
RunEnd(s, i, class) ==
    IF i <= Len(s) /\ s[i] \in class THEN RunEnd(s, i + 1, class) ELSE i

\* the regex '/[A-Za-z0-9_]*=[0-9]+' matched at position i: the position just
\* after the match, 0 when there is none
PartitionMatchEnd(s, i) ==
    IF i > Len(s) \/ s[i] # "/" THEN 0
    ELSE LET eq == RunEnd(s, i + 1, WordChars)
         IN IF eq > Len(s) \/ s[eq] # "=" THEN 0
            ELSE LET e == RunEnd(s, eq + 1, Digits)
                 IN IF e = eq + 1 THEN 0 ELSE e

\* re.sub('/[A-Za-z0-9_]*=[0-9]+', '', key)
RECURSIVE RemoveFrom(_, _)
RemoveFrom(s, i) ==
    IF i > Len(s) THEN <<>>
    ELSE LET e == PartitionMatchEnd(s, i)
         IN IF e # 0 THEN RemoveFrom(s, e)
            ELSE <<s[i]>> \o RemoveFrom(s, i + 1)

\* _remove_datetime_partitions_from_key
remove_datetime_partitions_from_key(key) == RemoveFrom(key, 1)

\* dateutil parser.parse of str(LastModified), "YYYY-MM-DD HH:MM:SS+HH:MM"
parser_parse(created_date) ==
    [year |-> ParseInt(created_date, 1, 4),
     month |-> ParseInt(created_date, 6, 7),
     day |-> ParseInt(created_date, 9, 10),
     hour |-> ParseInt(created_date, 12, 13),
     minute |-> ParseInt(created_date, 15, 16),
     second |-> ParseInt(created_date, 18, 19),
     microsecond |-> 0,
     utcoffset |-> (IF created_date[20] = "-" THEN -1 ELSE 1)
                       * ParseInt(created_date, 21, 22)]

IsLeap(y) == (y % 4 = 0 /\ y % 100 # 0) \/ y % 400 = 0

DaysInMonth(y, m) ==
    IF m = 2 THEN (IF IsLeap(y) THEN 29 ELSE 28)
    ELSE IF m \in {4, 6, 9, 11} THEN 30 ELSE 31

NextDay(dt) ==
    IF dt.day < DaysInMonth(dt.year, dt.month)
    THEN [dt EXCEPT !.day = @ + 1]
    ELSE IF dt.month < 12 THEN [dt EXCEPT !.day = 1, !.month = @ + 1]
    ELSE [dt EXCEPT !.day = 1, !.month = 1, !.year = @ + 1]

PrevDay(dt) ==
    IF dt.day > 1 THEN [dt EXCEPT !.day = @ - 1]
    ELSE IF dt.month > 1
    THEN [dt EXCEPT !.day = DaysInMonth(dt.year, dt.month - 1),
                    !.month = @ - 1]
    ELSE [dt EXCEPT !.day = 31, !.month = 12, !.year = @ - 1]

\* dateutil gettz: the UTC offset, in hours, of the zones without daylight
\* saving used here
gettz(name) ==
    CASE name = "UTC" -> 0
      [] name = "Asia/Tokyo" -> 9
      [] name = "America/Phoenix" -> -7

\* datetime.astimezone for whole-hour offsets
astimezone(dt, offset) ==
    LET h == dt.hour - dt.utcoffset + offset
    IN IF h >= 24
       THEN [NextDay(dt) EXCEPT !.hour = h - 24, !.utcoffset = offset]
       ELSE IF h < 0
       THEN [PrevDay(dt) EXCEPT !.hour = h + 24, !.utcoffset = offset]
       ELSE [dt EXCEPT !.hour = h, !.utcoffset = offset]

\* datetime.strftime: %Y %m %d %H %M %S %f and %% are directives, every
\* other character is copied
RECURSIVE StrftimeFrom(_, _, _)
StrftimeFrom(dt, fmt, i) ==
    IF i > Len(fmt) THEN <<>>
    ELSE IF fmt[i] = "%" /\ i < Len(fmt)
    THEN (CASE fmt[i + 1] = "Y" -> Pad4(dt.year)
            [] fmt[i + 1] = "m" -> Pad2(dt.month)
            [] fmt[i + 1] = "d" -> Pad2(dt.day)
            [] fmt[i + 1] = "H" -> Pad2(dt.hour)
            [] fmt[i + 1] = "M" -> Pad2(dt.minute)
            [] fmt[i + 1] = "S" -> Pad2(dt.second)
            [] fmt[i + 1] = "f" -> Pad2(dt.microsecond \div 10000)
                                       \o Pad4(dt.microsecond % 10000)
            [] OTHER -> <<fmt[i + 1]>>)
         \o StrftimeFrom(dt, fmt, i + 2)
    ELSE <<fmt[i]>> \o StrftimeFrom(dt, fmt, i + 1)

strftime(dt, fmt) == StrftimeFrom(dt, fmt, 1)

\* variant: the stagingFolderPath is appended to the folder path of the raw key
get_staging_key_KeepsRawFolder(file_details, file_settings, metadata) ==
    LET raw_key == file_details.key
        raw_file_name == file_details.fileName
        has_folder_path == "stagingFolderPath" \in DOMAIN file_settings
        has_partition == "stagingPartitionSettings" \in DOMAIN file_settings
        staging_key1 ==
            IF has_folder_path
            THEN get_folder_path_from_key(raw_key)
                     \o file_settings["stagingFolderPath"]
            ELSE get_folder_path_from_key(raw_key)
        staging_key2 ==
            IF has_partition
            THEN LET settings == file_settings["stagingPartitionSettings"]
                     created_datetime == parser_parse(metadata.created_date)
                     datetme_in_timezone ==
                         astimezone(created_datetime, gettz(settings.timezone))
                 IN remove_datetime_partitions_from_key(staging_key1)
                        \o <<"/">>
                        \o strftime(datetme_in_timezone, settings.expression)
            ELSE staging_key1
    IN Replace(staging_key2 \o <<"/">> \o raw_file_name, <<"/", "/">>, <<"/">>)

\* variant: no slash is put before the file name when the folder path is empty
get_staging_key_NoSlashOnEmptyFolder(file_details, file_settings, metadata) ==
    LET raw_key == file_details.key
        raw_file_name == file_details.fileName
        has_folder_path == "stagingFolderPath" \in DOMAIN file_settings
        has_partition == "stagingPartitionSettings" \in DOMAIN file_settings
        staging_key1 ==
            IF has_folder_path THEN file_settings["stagingFolderPath"]
            ELSE get_folder_path_from_key(raw_key)
        staging_key2 ==
            IF has_partition
            THEN LET settings == file_settings["stagingPartitionSettings"]
                     created_datetime == parser_parse(metadata.created_date)
                     datetme_in_timezone ==
                         astimezone(created_datetime, gettz(settings.timezone))
                 IN remove_datetime_partitions_from_key(staging_key1)
                        \o <<"/">>
                        \o strftime(datetme_in_timezone, settings.expression)
            ELSE staging_key1
    IN IF staging_key2 = <<>> THEN raw_file_name
       ELSE Replace(staging_key2 \o <<"/">> \o raw_file_name,
                    <<"/", "/">>, <<"/">>)

\* _get_staging_key
get_staging_key(file_details, file_settings, metadata) ==
    LET raw_key == file_details.key
        raw_file_name == file_details.fileName
        has_folder_path == "stagingFolderPath" \in DOMAIN file_settings
        has_partition == "stagingPartitionSettings" \in DOMAIN file_settings
        staging_key1 ==
            IF has_folder_path THEN file_settings["stagingFolderPath"]
            ELSE get_folder_path_from_key(raw_key)
        staging_key2 ==
            IF has_partition
            THEN LET settings == file_settings["stagingPartitionSettings"]
                     created_datetime == parser_parse(metadata.created_date)
                     datetme_in_timezone ==
                         astimezone(created_datetime, gettz(settings.timezone))
                 IN remove_datetime_partitions_from_key(staging_key1)
                        \o <<"/">>
                        \o strftime(datetme_in_timezone, settings.expression)
            ELSE staging_key1
    IN Replace(staging_key2 \o <<"/">> \o raw_file_name, <<"/", "/">>, <<"/">>)

\* the tag list built from requiredTags
TagList(tags) == {[Key |-> k, Value |-> tags[k]] : k \in DOMAIN tags}

\* the fields copy_file_from_raw_to_staging reads before its first S3 call
CopyInputsPresent(e) ==
    /\ {"fileDetails", "settings", "attachedMetadata", "fileSettings"}
           \subseteq DOMAIN e
    /\ {"bucket", "key", "fileName"} \subseteq DOMAIN e["fileDetails"]
    /\ "stagingBucket" \in DOMAIN e["settings"]
    /\ "stagingPartitionSettings" \in DOMAIN e["fileSettings"]
          => "created_date" \in DOMAIN e["attachedMetadata"]

\* copy_file_from_raw_to_staging, as run by lambda_handler; a missing field
\* and a failure of either S3 call are raised as the lambda's exception, and
\* requiredTags is read only after the copy
copy_file_from_raw_to_staging ==
    /\ pc = "start"
    /\ IF ~CopyInputsPresent(event)
       THEN /\ raised' = "CopyFileFromRawToStagingException"
            /\ UNCHANGED <<event, stagingBucket>>
       ELSE
         LET staging_key == get_staging_key(event["fileDetails"],
                                            event["fileSettings"],
                                            event["attachedMetadata"])
             copied == [key |-> staging_key,
                        metadata |-> event["attachedMetadata"],
                        tags |-> {}]
         IN \E outcome \in {"ok", "copy_fails", "tagging_fails"} :
              /\ outcome = "ok" => "requiredTags" \in DOMAIN event
              /\ raised' = IF outcome = "ok" THEN "None"
                           ELSE "CopyFileFromRawToStagingException"
              /\ stagingBucket' =
                   CASE outcome = "copy_fails" -> stagingBucket
                     [] outcome = "tagging_fails" ->
                          {o \in stagingBucket : o.key # staging_key}
                              \cup {copied}
                     [] outcome = "ok" ->
                          {o \in stagingBucket : o.key # staging_key}
                              \cup {[copied EXCEPT !.tags =
                                        TagList(event["requiredTags"])]}
              /\ event' =
                   IF outcome = "copy_fails" THEN event
                   ELSE Update(event, "fileDetails",
                               Update(event["fileDetails"],
                                      "stagingKey", staging_key))
    /\ pc' = "done"
    /\ function_name' = "copyFileFromRawToStaging"
    /\ UNCHANGED laterVars
    /\ UNCHANGED <<dataSourceTable, wildcard_depths, startVars, catalogVars,
                   workflowVars>>

----------------------------------------------------------------------------
(* Inputs of the staging key computation *)

\* every string of at most n characters over the given characters
RECURSIVE Strings(_, _)
Strings(chars, n) ==
    IF n = 0 THEN {<<>>}
    ELSE LET shorter == Strings(chars, n - 1)
         IN shorter \cup {Append(t, c) : t \in shorter, c \in chars}

FileName_f == <<"f",".","c","s","v">>                      \* f.csv

\* incoming/clientA/file.csv
Key_incoming ==
    <<"i","n","c","o","m","i","n","g","/","c","l","i","e","n","t","A","/",
      "f","i","l","e",".","c","s","v">>

\* in/year=2023/month=01/f.csv
Key_partitioned ==
    <<"i","n","/","y","e","a","r","=","2","0","2","3","/",
      "m","o","n","t","h","=","0","1","/">> \o FileName_f

\* a//b/f.csv
Key_doubled == <<"a","/","/","b","/">> \o FileName_f

\* year=2023/f.csv
Key_leading == <<"y","e","a","r","=","2","0","2","3","/">> \o FileName_f

\* in/data.json
Key_data == <<"i","n","/","d","a","t","a",".","j","s","o","n">>

\* raw keys: the examples, and f.csv under every folder path of at most
\* MaxPathLen characters over 's' and '/'
RawKeys ==
    {Key_incoming, Key_partitioned, Key_doubled, Key_leading, Key_data}
        \cup {folder \o FileName_f :
                folder \in {t \in Strings({"s", "/"}, MaxPathLen) :
                               t = <<>> \/ t[Len(t)] = "/"}}

\* staging/events
Path_events ==
    <<"s","t","a","g","i","n","g","/","e","v","e","n","t","s">>

\* staging/year=2023
Path_partitioned ==
    <<"s","t","a","g","i","n","g","/","y","e","a","r","=","2","0","2","3">>

\* stagingFolderPath values: the examples, and every string of at most
\* MaxPathLen characters over 's' and '/'
StagingFolderPaths ==
    {Path_events, Path_partitioned} \cup Strings({"s", "/"}, MaxPathLen)

\* 'year='yyyy
Expression_quoted == <<"'","y","e","a","r","=","'","y","y","y","y">>

\* year=%Y/month=%m
Expression_ym ==
    <<"y","e","a","r","=","%","Y","/","m","o","n","t","h","=","%","m">>

\* year=%Y
Expression_y == <<"y","e","a","r","=","%","Y">>

StagingPartitionSettings ==
    { [expression |-> Expression_quoted, timezone |-> "UTC"],
      [expression |-> Expression_y, timezone |-> "UTC"],
      [expression |-> Expression_ym, timezone |-> "Asia/Tokyo"],
      [expression |-> Expression_ym, timezone |-> "America/Phoenix"] }

\* 2024-03-17 10:00:00+00:00
Created_20240317 ==
    <<"2","0","2","4","-","0","3","-","1","7"," ",
      "1","0",":","0","0",":","0","0","+","0","0",":","0","0">>

\* 2023-12-31 20:00:00+00:00
Created_20231231 ==
    <<"2","0","2","3","-","1","2","-","3","1"," ",
      "2","0",":","0","0",":","0","0","+","0","0",":","0","0">>

\* 2024-03-01 03:00:00+00:00
Created_20240301 ==
    <<"2","0","2","4","-","0","3","-","0","1"," ",
      "0","3",":","0","0",":","0","0","+","0","0",":","0","0">>

\* the fileSettings of a data source: both staging fields are optional
FileSettingsValues ==
    {NoFields}
      \cup {("stagingFolderPath" :> p) : p \in StagingFolderPaths}
      \cup {("stagingPartitionSettings" :> s) : s \in StagingPartitionSettings}
      \cup {("stagingFolderPath" :> p) @@ ("stagingPartitionSettings" :> s) :
               p \in StagingFolderPaths, s \in StagingPartitionSettings}

InitStagingKey ==
    /\ \E key \in RawKeys, file_settings \in FileSettingsValues,
          created_date \in {Created_20240317, Created_20231231,
                            Created_20240301} :
          /\ "stagingPartitionSettings" \notin DOMAIN file_settings
                => created_date = Created_20240317
          /\ event = [fileDetails |->
                         [bucket |-> "raw", key |-> key,
                          fileName |-> BaseName(key)],
                      settings |-> [stagingBucket |-> "staging"],
                      fileSettings |-> file_settings,
                      requiredTags |-> [source |-> "lake"],
                      attachedMetadata |-> [created_date |-> created_date]]
          /\ rawBucket = {[RawObject(key, [created_date |-> created_date],
                                     parser_parse(created_date), Body_small)
                              EXCEPT !.TagSet = TagList([source |-> "lake"])]}
    /\ state = event
    /\ function_name = "None"
    /\ stagingBucket = {}
    /\ dataSourceTable = <<>>
    /\ pc = "start"
    /\ raised = "None"
    /\ wildcard_depths = <<>>
    /\ cache = {}
    /\ executions = <<>>
    /\ invocations = <<>>
    /\ dataCatalog = <<>>
    /\ notifications = <<>>
    /\ es = NoFields
    /\ failedBucket = {}
    /\ scan_positions = <<>>

NextStagingKey == copy_file_from_raw_to_staging

SpecStagingKey == InitStagingKey /\ [][NextStagingKey]_vars

----------------------------------------------------------------------------
(* startFileProcessing.py *)

\* the percent escapes of the keys used here, and the characters they encode
PercentCodes == {<<"2","0">>, <<"2","4">>, <<"2","B">>, <<"3","D">>}

PercentDecode(code) ==
    CASE code = <<"2","0">> -> " "
      [] code = <<"2","4">> -> "$"
      [] code = <<"2","B">> -> "+"
      [] code = <<"3","D">> -> "="

\* the first position from i on whose character is in chars, Len(s) + 1 if
\* there is none
NextIn(s, i, chars) ==
    LET hits == {j \in i..Len(s) : s[j] \in chars}
    IN IF hits = {} THEN Len(s) + 1
       ELSE CHOOSE j \in hits : \A k \in hits : j <= k

\* the first position from i on whose character is not in chars
NextNotIn(s, i, chars) ==
    LET hits == {j \in i..Len(s) : s[j] \notin chars}
    IN IF hits = {} THEN Len(s) + 1
       ELSE CHOOSE j \in hits : \A k \in hits : j <= k

\* urllib.parse.unquote_plus: '+' is a space, %XX is the character it encodes,
\* everything up to the next '+' or '%' is copied
RECURSIVE UnquotePlusFrom(_, _)
UnquotePlusFrom(s, i) ==
    LET j == NextIn(s, i, {"+", "%"})
        copied == SubSeq(s, i, j - 1)
    IN IF j > Len(s) THEN copied
       ELSE IF s[j] = "+" THEN copied \o <<" ">> \o UnquotePlusFrom(s, j + 1)
       ELSE IF j + 2 <= Len(s) /\ SubSeq(s, j + 1, j + 2) \in PercentCodes
       THEN copied \o <<PercentDecode(SubSeq(s, j + 1, j + 2))>>
                   \o UnquotePlusFrom(s, j + 3)
       ELSE copied \o <<"%">> \o UnquotePlusFrom(s, j + 1)

unquote_plus(s) == UnquotePlusFrom(s, 1)

\* variant: re.sub('\W', '_', key), every non-word character gets its own '_'
SubNonWord_EachChar(s, i) ==
    [k \in 1..(Len(s) - i + 1) |->
        IF s[i + k - 1] \in WordChars THEN s[i + k - 1] ELSE "_"]

\* re.sub('\W+', '_', key) from position i on: word characters are copied up
\* to the next run of non-word characters, and the whole run becomes one '_'
RECURSIVE SubNonWord(_, _)
SubNonWord(s, i) ==
    LET j == NextNotIn(s, i, WordChars)
        copied == SubSeq(s, i, j - 1)
    IN IF j > Len(s) THEN copied
       ELSE copied \o <<"_">> \o SubNonWord(s, NextIn(s, j, WordChars))

StepFunctionNameLimit == 80

IdSize == 6

\* '%Y%m%d%H%M%S%f'
TimestampFormat ==
    <<"%","Y","%","m","%","d","%","H","%","M","%","S","%","f">>

\* the execution name built by start_step_function_for_file
step_function_name(now, id, key) ==
    LET timestamp == strftime(now, TimestampFormat)
        keystring == SubNonWord(key, 1)
        name == timestamp \o id \o <<"_">> \o keystring
    IN SubSeq(name, 1, IF Len(name) < StepFunctionNameLimit
                       THEN Len(name) ELSE StepFunctionNameLimit)

\* the environment variables of the start lambda
Environment ==
    [DATA_SOURCE_TABLE_NAME |-> "dataSources",
     DATA_CATALOG_TABLE_NAME |-> "dataCatalog",
     SNS_FAILURE_ARN |-> "arn:default-failure",
     S3_CACHE_TABLE_NAME |-> "s3Cache",
     STAGING_BUCKET_NAME |-> "staging",
     FAILED_BUCKET_NAME |-> "failed"]

\* sfn_Input of start_step_function_for_file
sfn_Input(bucket, key, name) ==
    [fileDetails |->
        [bucket |-> bucket, key |-> key, fileName |-> BaseName(key),
         stagingExecutionName |-> name],
     settings |->
        [dataSourceTableName |-> Environment.DATA_SOURCE_TABLE_NAME,
         dataCatalogTableName |-> Environment.DATA_CATALOG_TABLE_NAME,
         defaultSNSErrorArn |-> Environment.SNS_FAILURE_ARN,
         s3_cache_table |-> Environment.S3_CACHE_TABLE_NAME,
         stagingBucket |-> Environment.STAGING_BUCKET_NAME,
         failedBucket |-> Environment.FAILED_BUCKET_NAME]]

\* str() of the exception start_execution raises
StartExecutionError == "start_execution failed"

\* variant: the item is written without errorCause
StartFailureItem_NoErrorCause(bucket, key, now_ms) ==
    [rawKey |-> key,
     catalogTime |-> now_ms,
     rawBucket |-> bucket,
     error |-> "Failed to start file processing"]

\* the item written by record_failure_to_start_step_function
StartFailureItem(bucket, key, now_ms) ==
    [rawKey |-> key,
     catalogTime |-> now_ms,
     rawBucket |-> bucket,
     error |-> "Failed to start file processing",
     errorCause |-> [errorType |-> "ClientError",
                     errorMessage |-> StartExecutionError]]

\* values of int(time.time() * 1000), scaled down
ClockValues == {1000, 2000}

\* values of datetime.now()
Timestamps ==
    { [year |-> 2024, month |-> 3, day |-> 17, hour |-> 10, minute |-> 0,
       second |-> 0, microsecond |-> 0, utcoffset |-> 0],
      [year |-> 2023, month |-> 12, day |-> 31, hour |-> 23, minute |-> 59,
       second |-> 59, microsecond |-> 999999, utcoffset |-> 0] }

\* values of id_generator(): IdSize characters among A-Z and 0-9
SampleIds == { <<"A","A","A","A","A","A">>, <<"Z","9","X","8","Y","0">> }

\* variant: the item is put without the attribute_not_exists condition
is_request_in_processing_cache_Unconditional(i) ==
    /\ invocations[i].pc = "check"
    /\ \E outcome \in {"put", "client_error"} :
         LET request_id == invocations[i].aws_request_id
         IN IF outcome = "client_error"
            THEN /\ invocations' =
                      [invocations EXCEPT ![i].pc = "raised",
                                          ![i].raised = "ClientError"]
                 /\ cache' = cache
            ELSE /\ cache' = cache \cup {request_id}
                 /\ invocations' =
                      [invocations EXCEPT ![i].in_cache = "False",
                                          ![i].pc = "process"]
    /\ UNCHANGED laterVars
    /\ UNCHANGED <<event, dataSourceTable, pc, raised, wildcard_depths,
                   stagingBucket, executions, catalogVars, workflowVars,
                   function_name>>

\* is_request_in_processing_cache, as called by start_file_processing: the
\* conditional put is one atomic DynamoDB operation; True ends the invocation
\* with the event returned, any other ClientError is raised
is_request_in_processing_cache(i) ==
    /\ invocations[i].pc = "check"
    /\ \E outcome \in {"put", "client_error"} :
         LET request_id == invocations[i].aws_request_id
         IN IF outcome = "client_error"
            THEN /\ invocations' =
                      [invocations EXCEPT ![i].pc = "raised",
                                          ![i].raised = "ClientError"]
                 /\ cache' = cache
            ELSE IF request_id \notin cache
            THEN /\ cache' = cache \cup {request_id}
                 /\ invocations' =
                      [invocations EXCEPT ![i].in_cache = "False",
                                          ![i].pc = "process"]
            ELSE /\ cache' = cache
                 /\ invocations' =
                      [invocations EXCEPT ![i].in_cache = "True",
                                          ![i].pc = "done"]
    /\ UNCHANGED laterVars
    /\ UNCHANGED <<event, dataSourceTable, pc, raised, wildcard_depths,
                   stagingBucket, executions, catalogVars, workflowVars,
                   function_name>>

\* the rest of start_file_processing once the request id is claimed: the for
\* loop leaves bucket and key at the last record, and the execution is started
\* after the loop unless that key ends with '/'
start_file_processing(i) ==
    /\ invocations[i].pc = "process"
    /\ LET records == invocations[i].Records
           record == records[Len(records)]
           bucket == record.s3.bucket.name
           key == unquote_plus(record.s3.object.key)
       IN IF key # <<>> /\ key[Len(key)] = "/"
          THEN /\ invocations' = [invocations EXCEPT ![i].pc = "done"]
               /\ UNCHANGED <<executions, dataCatalog>>
          ELSE \E now \in Timestamps, id \in SampleIds, now_ms \in ClockValues,
                  outcome \in {"started", "start_fails",
                               "start_and_record_fail"} :
                 LET name == step_function_name(now, id, key)
                 IN CASE outcome = "started" ->
                           /\ executions' =
                                Append(executions,
                                       [name |-> name,
                                        input |-> sfn_Input(bucket, key, name)])
                           /\ invocations' =
                                [invocations EXCEPT ![i].pc = "done",
                                                    ![i].started = @ + 1]
                           /\ UNCHANGED dataCatalog
                      [] outcome = "start_fails" ->
                           /\ dataCatalog' =
                                Append(dataCatalog,
                                       StartFailureItem(bucket, key, now_ms))
                           /\ invocations' =
                                [invocations EXCEPT
                                    ![i].pc = "raised",
                                    ![i].raised = StartExecutionError]
                           /\ UNCHANGED executions
                      [] outcome = "start_and_record_fail" ->
                           /\ invocations' =
                                [invocations EXCEPT
                                    ![i].pc = "raised",
                                    ![i].raised = StartExecutionError]
                           /\ UNCHANGED <<executions, dataCatalog>>
    /\ UNCHANGED laterVars
    /\ UNCHANGED <<event, dataSourceTable, pc, raised, wildcard_depths,
                   stagingBucket, cache, notifications, workflowVars,
                   function_name>>

----------------------------------------------------------------------------
(* Inputs of the start lambda *)

MaxInvocations == 2

MaxChunks == 14

\* in/my+file%3D1.csv, the encoding of "in/my file=1.csv"
EncodedKey_special ==
    <<"i","n","/","m","y","+","f","i","l","e","%","3","D","1",".","c","s","v">>

\* incoming/new/, the key of a folder creation
Key_folder == <<"i","n","c","o","m","i","n","g","/","n","e","w","/">>

\* n folders "dir--/" followed by the file name "f"
RECURSIVE LongKey(_)
LongKey(n) ==
    IF n = 0 THEN <<"f">>
    ELSE <<"d","i","r","-","-","/">> \o LongKey(n - 1)

S3Record(key, sequencer) ==
    [s3 |-> [bucket |-> [name |-> "raw"],
             object |-> [key |-> key, sequencer |-> sequencer]]]

\* the S3 events delivered: each sequencer names one file arrival
S3Events ==
    { <<S3Record(Key_incoming, "e1")>>,
      <<S3Record(Key_folder, "e2")>>,
      <<S3Record(Key_incoming, "e3"), S3Record(EncodedKey_special, "e6")>>,
      <<S3Record(Key_incoming, "e7"), S3Record(Key_folder, "e8")>>,
      <<S3Record(LongKey(MaxChunks - 1), "e4")>>,
      <<S3Record(Key_folder, "e5"), S3Record(LongKey(MaxChunks), "e5")>> }

RequestIds == {"r1", "r2"}

\* a Lambda retry carries the request id and the event of the first attempt
InitStart ==
    /\ invocations \in
         [1..MaxInvocations ->
            [aws_request_id : RequestIds, Records : S3Events,
             pc : {"check"}, in_cache : {"unknown"}, started : {0},
             raised : {"None"}]]
    /\ \A i, j \in 1..MaxInvocations :
          invocations[i].aws_request_id = invocations[j].aws_request_id
              => invocations[i].Records = invocations[j].Records
    /\ cache = {}
    /\ executions = <<>>
    /\ dataCatalog = <<>>
    /\ notifications = <<>>
    /\ es = NoFields
    /\ failedBucket = {}
    /\ scan_positions = <<>>
    /\ event = NoFields
    /\ state = NoFields
    /\ rawBucket = {}
    /\ function_name = "None"
    /\ dataSourceTable = <<>>
    /\ pc = "idle"
    /\ raised = "None"
    /\ wildcard_depths = <<>>
    /\ stagingBucket = {}

NextStart ==
    \E i \in 1..MaxInvocations :
        \/ is_request_in_processing_cache(i)
        \/ start_file_processing(i)

SpecStart == InitStart /\ [][NextStart]_vars

----------------------------------------------------------------------------
(* getFileSettings.py *)

\* Python's None
None == [None |-> TRUE]

\* the object head_object and get_object find under key
head_object(key) == CHOOSE o \in rawBucket : o.Key = key

\* the items get_item can find for the file type (fileType is the hash key)
ItemsOf(file_type) ==
    {i \in 1..Len(dataSourceTable) : dataSourceTable[i].fileType = file_type}

get_item(file_type) == dataSourceTable[CHOOSE i \in ItemsOf(file_type) : TRUE]

attach_file_settings_to_event(e, item) ==
    LET schema == IF "schema" \in DOMAIN item THEN item["schema"] ELSE None
        e1 == Update(e, "schema", schema)
        e2 == Update(e1, "fileSettings", item["fileSettings"])
        e3 == Update(e2, "requiredMetadata", item["metadata"])
    IN Update(e3, "requiredTags", item["tags"])

\* variant: fileDetails is replaced by a dict that holds contentLength alone
attach_existing_metadata_to_event_ReplacesFileDetails(e, file_header) ==
    Update(Update(e, "existingMetadata", file_header.Metadata),
           "fileDetails", [contentLength |-> file_header.ContentLength])

attach_existing_metadata_to_event(e, file_header) ==
    Update(Update(e, "existingMetadata", file_header.Metadata),
           "fileDetails",
           Update(e["fileDetails"], "contentLength",
                  file_header.ContentLength))

\* get_file_settings, as run by lambda_handler: a missing field, a missing
\* item and a failed service call are raised as the lambda's exception
get_file_settings ==
    /\ pc = "start"
    /\ IF \/ "fileType" \notin DOMAIN event
          \/ ItemsOf(event["fileType"]) = {}
          \/ ~({"fileSettings", "metadata", "tags"}
                   \subseteq DOMAIN get_item(event["fileType"]))
       THEN /\ raised' = "KeyError"
            /\ event' = event
       ELSE \E outcome \in {"ok", "get_item_fails", "head_object_fails"} :
              LET item == get_item(event["fileType"])
                  e1 == attach_file_settings_to_event(event, item)
                  file_header == head_object(event["fileDetails"].key)
              IN CASE outcome = "get_item_fails" ->
                        raised' = "ClientError" /\ event' = event
                   [] outcome = "head_object_fails" ->
                        raised' = "ClientError" /\ event' = e1
                   [] outcome = "ok" ->
                        /\ raised' = "None"
                        /\ event' =
                             attach_existing_metadata_to_event(e1, file_header)
    /\ pc' = "done"
    /\ function_name' = "getFileSettings"
    /\ UNCHANGED laterVars
    /\ UNCHANGED <<dataSourceTable, wildcard_depths, stagingBucket, startVars,
                   catalogVars, workflowVars>>

----------------------------------------------------------------------------
(* calculateMetaDataForFile.py and attachTagsAndMetaDataToFile.py *)

\* the value of int(time.time() * 1000) while the metadata is computed,
\* scaled down
StagingClockValues == {1000}

\* str() of a non-negative int
RECURSIVE IntToStr(_)
IntToStr(n) ==
    IF n < 10 THEN <<DigitSeq[n + 1]>>
    ELSE IntToStr(n \div 10) \o <<DigitSeq[(n % 10) + 1]>>

\* str() of the timezone-aware LastModified that S3 returns (UTC, whole
\* seconds)
str_datetime(dt) ==
    strftime(dt, <<"%","Y","-","%","m","-","%","d"," ",
                   "%","H",":","%","M",":","%","S">>)
        \o <<"+","0","0",":","0","0">>

\* get_created_date
get_created_date(key) == str_datetime(head_object(key).LastModified)

\* get_md5: the base64 MD5 of the content, kept symbolic
get_md5(key) == <<"m","d","5","(">> \o head_object(key).Body \o <<")">>

\* dict.update of every field of u
UpdateAll(d, u) == u @@ d

CalculatesMD5(e) ==
    /\ "calculateMD5" \in DOMAIN e["fileSettings"]
    /\ e["fileSettings"]["calculateMD5"] = "True"

\* the event calculate_additional_metadata returns: requiredMetadata is
\* updated in place, then combined with existingMetadata
calculate_additional_metadata_result(e, now_ms) ==
    LET key == e["fileDetails"].key
        r1 == Update(e["requiredMetadata"], "staging_time", IntToStr(now_ms))
        r2 == Update(r1, "created_date", get_created_date(key))
        required_metadata ==
            IF CalculatesMD5(e) THEN Update(r2, "staged_md5", get_md5(key))
            ELSE r2
        combinedMetadata ==
            UpdateAll(UpdateAll(NoFields, e["existingMetadata"]),
                      required_metadata)
    IN Update(Update(e, "requiredMetadata", required_metadata),
              "combinedMetadata", combinedMetadata)

\* calculate_additional_metadata, as run by lambda_handler
calculate_additional_metadata ==
    /\ pc = "start"
    /\ IF ~({"existingMetadata", "requiredMetadata", "fileSettings"}
               \subseteq DOMAIN event)
       THEN /\ raised' = "KeyError"
            /\ event' = event
       ELSE \E now_ms \in StagingClockValues,
               outcome \in {"ok", "head_object_fails", "get_object_fails"} :
              /\ outcome = "get_object_fails" => CalculatesMD5(event)
              /\ IF outcome = "ok"
                 THEN /\ raised' = "None"
                      /\ event' =
                           calculate_additional_metadata_result(event, now_ms)
                 ELSE /\ raised' = "ClientError"
                      /\ event' =
                           Update(event, "requiredMetadata",
                                  Update(event["requiredMetadata"],
                                         "staging_time", IntToStr(now_ms)))
    /\ pc' = "done"
    /\ function_name' = "calculateMetaDataForFile"
    /\ UNCHANGED laterVars
    /\ UNCHANGED <<dataSourceTable, wildcard_depths, stagingBucket, startVars,
                   catalogVars, workflowVars>>

\* variant: the existing metadata is applied after the required metadata
attached_metadata_ExistingWins(e, now_ms) ==
    LET key == e["fileDetails"].key
        m1 == UpdateAll(UpdateAll(NoFields, e["requiredMetadata"]),
                        e["existingMetadata"])
        m2 == Update(m1, "staging_time", IntToStr(now_ms))
        m3 == Update(m2, "created_date", get_created_date(key))
    IN IF CalculatesMD5(e) THEN Update(m3, "staged_md5", get_md5(key)) ELSE m3

\* the metadata add_meta_data_to_file builds in a fresh dict
attached_metadata(e, now_ms) ==
    LET key == e["fileDetails"].key
        m1 == UpdateAll(UpdateAll(NoFields, e["existingMetadata"]),
                        e["requiredMetadata"])
        m2 == Update(m1, "staging_time", IntToStr(now_ms))
        m3 == Update(m2, "created_date", get_created_date(key))
    IN IF CalculatesMD5(e) THEN Update(m3, "staged_md5", get_md5(key)) ELSE m3

\* the LastModified of an object written by a later copy
LastModified_copied ==
    [year |-> 2024, month |-> 3, day |-> 17, hour |-> 10, minute |-> 5,
     second |-> 0, microsecond |-> 0, utcoffset |-> 0]

\* attach_tags_and_metadata_to_file, as run by lambda_handler: the tags are
\* put first, then the object is copied onto itself with the new metadata
attach_tags_and_metadata_to_file ==
    /\ pc = "start"
    /\ IF "requiredTags" \notin DOMAIN event
       THEN /\ raised' = "KeyError"
            /\ UNCHANGED <<event, rawBucket>>
       ELSE
         \E now_ms \in StagingClockValues,
            outcome \in {"ok", "tagging_fails", "copy_fails"} :
           LET key == event["fileDetails"].key
               object == head_object(key)
               tagged ==
                   [object EXCEPT !.TagSet = TagList(event["requiredTags"])]
               others == rawBucket \ {object}
           IN IF outcome = "tagging_fails"
              THEN /\ raised' = "ClientError"
                   /\ UNCHANGED <<event, rawBucket>>
              ELSE IF ~({"requiredMetadata", "existingMetadata",
                         "fileSettings"} \subseteq DOMAIN event)
              THEN /\ raised' = "KeyError"
                   /\ rawBucket' = others \cup {tagged}
                   /\ event' = event
              ELSE IF outcome = "copy_fails"
              THEN /\ raised' = "ClientError"
                   /\ rawBucket' = others \cup {tagged}
                   /\ event' = event
              ELSE LET metadata == attached_metadata(event, now_ms)
                   IN /\ raised' = "None"
                      /\ rawBucket' =
                           others \cup
                             {[tagged EXCEPT
                                 !.Metadata = metadata,
                                 !.LastModified = LastModified_copied]}
                      /\ event' = Update(event, "attachedMetadata", metadata)
    /\ pc' = "done"
    /\ function_name' = "attachTagsAndMetaDataToFile"
    /\ UNCHANGED laterVars
    /\ UNCHANGED <<dataSourceTable, wildcard_depths, stagingBucket, startVars,
                   catalogVars, state>>

----------------------------------------------------------------------------
(* verifyFileSchema.py *)

\* the characters the json scanner skips between tokens
JsonWhitespace == {" ", "\t", "\n", "\r"}

\* the character of s at position p, "EOF" behind the end
At(s, p) == IF p \in 1..Len(s) THEN s[p] ELSE "EOF"

\* the decoder found no JSON value
DecodeFail ==
    [ok |-> FALSE, end |-> 0, kind |-> "none", keys |-> {}, text |-> <<>>]

\* a decoded value: its kind, the keys of an object, the text of a string,
\* and the position behind it
Decoded(end, kind, keys, text) ==
    [ok |-> TRUE, end |-> end, kind |-> kind, keys |-> keys, text |-> text]

\* json.decoder.scanstring from the position behind the opening quote
\* (strings without escapes)
scanstring(s, p) ==
    LET q == NextIn(s, p, {"\""})
    IN IF q > Len(s) THEN DecodeFail
       ELSE Decoded(q + 1, "string", {}, SubSeq(s, p, q - 1))

\* the match of NUMBER_RE at p, integers only: 0, or a run of digits that
\* does not start with 0
scannumber(s, p) ==
    IF s[p] = "0" THEN Decoded(p + 1, "number", {}, <<>>)
    ELSE Decoded(NextNotIn(s, p, Digits), "number", {}, <<>>)

RECURSIVE scan_once(_, _)
RECURSIVE JSONObject_pairs(_, _, _)
RECURSIVE JSONArray_values(_, _)

\* json.decoder.JSONObject from the opening quote of a key on
JSONObject_pairs(s, p, keys) ==
    IF At(s, p) # "\"" THEN DecodeFail
    ELSE LET k == scanstring(s, p + 1)
         IN IF ~k.ok THEN DecodeFail
            ELSE LET c == NextNotIn(s, k.end, JsonWhitespace)
                 IN IF At(s, c) # ":" THEN DecodeFail
                    ELSE LET v == scan_once(s, NextNotIn(s, c + 1, JsonWhitespace))
                         IN IF ~v.ok THEN DecodeFail
                            ELSE LET d == NextNotIn(s, v.end, JsonWhitespace)
                                     all == keys \cup {k.text}
                                 IN CASE At(s, d) = "}" ->
                                           Decoded(d + 1, "object", all, <<>>)
                                      [] At(s, d) = "," ->
                                           JSONObject_pairs(s,
                                              NextNotIn(s, d + 1, JsonWhitespace),
                                              all)
                                      [] OTHER -> DecodeFail

\* json.decoder.JSONObject from the position behind '{'
JSONObject(s, p) ==
    LET q == NextNotIn(s, p, JsonWhitespace)
    IN IF At(s, q) = "}" THEN Decoded(q + 1, "object", {}, <<>>)
       ELSE JSONObject_pairs(s, q, {})

\* json.decoder.JSONArray from the first character of a value on
JSONArray_values(s, p) ==
    LET v == scan_once(s, p)
    IN IF ~v.ok THEN DecodeFail
       ELSE LET d == NextNotIn(s, v.end, JsonWhitespace)
            IN CASE At(s, d) = "]" -> Decoded(d + 1, "array", {}, <<>>)
                 [] At(s, d) = "," ->
                      JSONArray_values(s, NextNotIn(s, d + 1, JsonWhitespace))
                 [] OTHER -> DecodeFail

\* json.decoder.JSONArray from the position behind '['
JSONArray(s, p) ==
    LET q == NextNotIn(s, p, JsonWhitespace)
    IN IF At(s, q) = "]" THEN Decoded(q + 1, "array", {}, <<>>)
       ELSE JSONArray_values(s, q)

\* json.scanner.py_make_scanner: one value at p (strings, integers, objects
\* and arrays)
scan_once(s, p) ==
    LET c == At(s, p)
    IN CASE c = "\"" -> scanstring(s, p + 1)
         [] c = "{" -> JSONObject(s, p + 1)
         [] c = "[" -> JSONArray(s, p + 1)
         [] c \in Digits -> scannumber(s, p)
         [] OTHER -> DecodeFail

\* JSONDecoder.raw_decode(s): the value at the start of s and the index
\* behind it, counted from 0
raw_decode(s) ==
    LET v == scan_once(s, 1)
    IN [ok |-> v.ok, json_object |-> v, end_position |-> v.end - 1]

\* jsonschema.validate for the keywords type and required
validate(json_object, schema) ==
    /\ "type" \in DOMAIN schema => json_object.kind = schema["type"]
    /\ ("required" \in DOMAIN schema /\ json_object.kind = "object")
          => schema["required"] \subseteq json_object.keys

\* file_content[start_position:]
SliceFrom(file_content, start_position) ==
    SubSeq(file_content, start_position + 1, Len(file_content))

\* variant: the scan goes on one character behind the start of the value
next_start_position_StepsInside(start_position, end_position) ==
    start_position + 1

\* start_position after a value that validates: behind the value
next_start_position(start_position, end_position) ==
    start_position + end_position

\* the while loop of _verify_json_schema from start_position on; positions
\* are the values start_position had when raw_decode was called
RECURSIVE verify_json_schema_from(_, _, _, _)
verify_json_schema_from(file_content, schema, start_position, positions) ==
    LET rest == SliceFrom(file_content, start_position)
        match == NextIn(rest, 1, {"{", "["})
        start == (match - 1) + start_position
        decoded == raw_decode(SliceFrom(file_content, start))
        seen == Append(positions, start)
    IN IF match > Len(rest)
       THEN [raised |-> "None", positions |-> positions]
       ELSE IF ~decoded.ok
       THEN [raised |-> "JSONDecodeError", positions |-> seen]
       ELSE IF ~validate(decoded.json_object, schema)
       THEN [raised |-> "VerifyFileSchemaException", positions |-> seen]
       ELSE verify_json_schema_from(
                file_content, schema,
                next_start_position(start, decoded.end_position), seen)

\* _verify_json_schema
verify_json_schema(file_content, schema) ==
    verify_json_schema_from(file_content, schema, 0, <<>>)

\* _verify_file_schema, as run by lambda_handler, which turns every other
\* exception into VerifyFileSchemaException. The content is loaded from
\* the raw bucket; json content is scanned and validated, the verdict of
\* the csv validator is an input here. The event is returned as it came.
verify_file_schema ==
    /\ pc = "start"
    /\ IF ~({"fileSettings", "fileType"} \subseteq DOMAIN event)
       THEN raised' = "KeyError" /\ scan_positions' = scan_positions
       ELSE IF "schema" \in DOMAIN event /\ event["schema"] # None
       THEN IF "fileFormat" \in DOMAIN event["fileSettings"]
            THEN \E outcome \in {"valid", "invalid", "load_fails"} :
                   LET fileFormat == event["fileSettings"]["fileFormat"]
                       key == event["fileDetails"].key
                       loaded == outcome # "load_fails"
                                   /\ \E o \in rawBucket : o.Key = key
                   IN IF ~loaded
                      THEN /\ outcome = "load_fails"
                           /\ raised' = "ClientError"
                           /\ scan_positions' = scan_positions
                      ELSE IF fileFormat = "json"
                      THEN LET verdict ==
                                 verify_json_schema(head_object(key).Body,
                                                    event["schema"])
                           IN /\ outcome = "valid"
                              /\ raised' =
                                   IF verdict.raised = "None" THEN "None"
                                   ELSE "VerifyFileSchemaException"
                              /\ scan_positions' = verdict.positions
                      ELSE /\ scan_positions' = scan_positions
                           /\ raised' =
                                IF fileFormat \in {"csv", "tsv"}
                                      /\ outcome = "valid"
                                THEN "None"
                                ELSE "VerifyFileSchemaException"
            ELSE raised' = "None" /\ scan_positions' = scan_positions
       ELSE raised' = "None" /\ scan_positions' = scan_positions
    /\ event' = event
    /\ pc' = "done"
    /\ function_name' = "verifyFileSchema"
    /\ UNCHANGED <<es, failedBucket>>
    /\ UNCHANGED <<dataSourceTable, wildcard_depths, stagingBucket, startVars,
                   catalogVars, workflowVars>>

----------------------------------------------------------------------------
(* Inputs of the json verification *)

MaxDocuments == 3

\* the document {"a":1}
Doc_flat ==
    <<"{", "\"", "a", "\"", ":", "1", "}">>

\* the document {"a": [1,{}]}
Doc_nested ==
    <<"{", "\"", "a", "\"", ":", " ", "[", "1", ",", "{", "}", "]", "}">>

\* the document {"k":"]{"}
Doc_brackets ==
    <<"{", "\"", "k", "\"", ":", "\"", "]", "{", "\"", "}">>

\* the document [1,{"b":20}]
Doc_array ==
    <<"[", "1", ",", "{", "\"", "b", "\"", ":", "2", "0", "}", "]">>

\* a document followed by an opening bracket
Content_open ==
    <<"{", "\"", "a", "\"", ":", "1", "}", "[">>

\* a document cut in the middle
Content_cut ==
    <<"[", "1", ",", "{", "\"", "b", "\"", ":">>

Documents == {Doc_flat, Doc_nested, Doc_brackets, Doc_array}

\* what firehose or a writer puts between two documents
Separators == {<<>>, <<"\n">>}

DocumentLists == UNION {[1..n -> Documents] : n \in 0..MaxDocuments}

\* the documents one after the other, sep between two of them
RECURSIVE Join(_, _)
Join(docs, sep) ==
    IF docs = <<>> THEN <<>>
    ELSE IF Len(docs) = 1 THEN docs[1]
    ELSE docs[1] \o sep \o Join(Tail(docs), sep)

Contents ==
    {Join(docs, sep) : docs \in DocumentLists, sep \in Separators}
        \cup {Content_open, Content_cut}

Schema_object == [type |-> "object"]
Schema_array == [type |-> "array"]
Schema_required == [type |-> "object", required |-> {<<"a">>}]
Schemas == {Schema_object, Schema_array, Schema_required}

\* the event of a json file with a schema reaches the lambda
InitVerifyJson ==
    /\ \E content \in Contents :
          rawBucket = {RawObject(Key_fyx, NoFields, LastModified_20240317,
                                 content)}
    /\ \E schema \in Schemas :
          event = [fileDetails |-> [bucket |-> "raw", key |-> Key_fyx],
                   fileType |-> "orders",
                   fileSettings |-> [fileFormat |-> "json"],
                   schema |-> schema]
    /\ state = event
    /\ dataSourceTable = <<>>
    /\ function_name = "None"
    /\ pc = "start"
    /\ raised = "None"
    /\ wildcard_depths = <<>>
    /\ stagingBucket = {}
    /\ cache = {}
    /\ executions = <<>>
    /\ invocations = <<>>
    /\ dataCatalog = <<>>
    /\ notifications = <<>>
    /\ es = NoFields
    /\ failedBucket = {}
    /\ scan_positions = <<>>

NextVerifyJson == verify_file_schema

SpecVerifyJson == InitVerifyJson /\ [][NextVerifyJson]_vars

----------------------------------------------------------------------------
(* recordSuccessfulStaging.py *)

\* the fields record_successful_staging_in_data_catalog reads before it
\* looks at stagingPartitionSettings
SuccessInputsPresent(e) ==
    /\ {"fileDetails", "fileType", "settings", "requiredTags",
        "attachedMetadata", "fileSettings"} \subseteq DOMAIN e
    /\ {"key", "bucket", "stagingKey", "contentLength",
        "stagingExecutionName"} \subseteq DOMAIN e["fileDetails"]
    /\ {"stagingBucket", "dataCatalogTableName"} \subseteq DOMAIN e["settings"]

\* dynamodb_item of record_successful_staging_in_data_catalog; the local
\* staging_partition_settings is bound only when the file settings hold
\* stagingPartitionSettings
successful_staging_item(e, now_ms) ==
    [rawKey |-> e["fileDetails"].key,
     catalogTime |-> now_ms,
     rawBucket |-> e["fileDetails"].bucket,
     stagingKey |-> e["fileDetails"].stagingKey,
     stagingBucket |-> e["settings"].stagingBucket,
     contentLength |-> e["fileDetails"].contentLength,
     fileType |-> e["fileType"],
     stagingExecutionName |-> e["fileDetails"].stagingExecutionName,
     stagingPartitionSettings |-> e["fileSettings"]["stagingPartitionSettings"],
     tags |-> e["requiredTags"],
     metadata |-> e["attachedMetadata"]]

\* the message of send_successful_staging_sns
SuccessNotification(e) ==
    [TopicArn |-> e["fileSettings"]["successSNSTopicARN"],
     Subject |-> "Data Lake - ingressed file staging success",
     Message |-> <<"File:", e["fileDetails"].key,
                   " in Bucket:", e["fileDetails"].bucket,
                   " for DataSource:", e["fileType"],
                   " successfully staged">>]

\* record_successfull_staging, as run by lambda_handler: the catalog record
\* is put first, then the success topic, when configured, is notified
record_successfull_staging ==
    /\ pc = "start"
    /\ IF ~SuccessInputsPresent(event)
       THEN /\ raised' = "KeyError"
            /\ UNCHANGED <<dataCatalog, notifications>>
       ELSE IF "stagingPartitionSettings" \notin DOMAIN event["fileSettings"]
       THEN /\ raised' = "UnboundLocalError"
            /\ UNCHANGED <<dataCatalog, notifications>>
       ELSE
         \E now_ms \in ClockValues,
            outcome \in {"ok", "put_item_fails", "publish_fails"} :
           LET configured ==
                   "successSNSTopicARN" \in DOMAIN event["fileSettings"]
           IN /\ outcome = "publish_fails" => configured
              /\ raised' = IF outcome = "ok" THEN "None" ELSE "ClientError"
              /\ dataCatalog' =
                   IF outcome = "put_item_fails" THEN dataCatalog
                   ELSE Append(dataCatalog,
                               successful_staging_item(event, now_ms))
              /\ notifications' =
                   IF outcome = "ok" /\ configured
                   THEN Append(notifications, SuccessNotification(event))
                   ELSE notifications
    /\ event' = event
    /\ pc' = "done"
    /\ function_name' = "recordSuccessfulStaging"
    /\ UNCHANGED laterVars
    /\ UNCHANGED <<dataSourceTable, wildcard_depths, stagingBucket, startVars,
                   workflowVars>>

----------------------------------------------------------------------------
(* recordFailedStaging.py *)

\* the Cause text of error-info is kept as the JSON object it encodes
json_dumps(object) == [json |-> object]

json_loads(text) == text.json

\* d without field k
Del(d, k) == [f \in DOMAIN d \ {k} |-> d[f]]

\* the fields record_failed_staging_in_data_catalog reads
FailedInputsPresent(e) ==
    /\ {"fileDetails", "error-info", "settings"} \subseteq DOMAIN e
    /\ {"key", "bucket", "stagingExecutionName"} \subseteq DOMAIN e["fileDetails"]
    /\ {"Error", "Cause"} \subseteq DOMAIN e["error-info"]
    /\ "dataCatalogTableName" \in DOMAIN e["settings"]

\* error_cause: the parsed Cause without its stackTrace
error_cause(e) ==
    LET parsed == json_loads(e["error-info"]["Cause"])
    IN IF "stackTrace" \in DOMAIN parsed THEN Del(parsed, "stackTrace")
       ELSE parsed

\* variant: the item is built without errorCause
failed_staging_item_NoErrorCause(e, now_ms) ==
    [rawKey |-> e["fileDetails"].key,
     catalogTime |-> now_ms,
     rawBucket |-> e["fileDetails"].bucket,
     error |-> e["error-info"]["Error"],
     stagingExecutionName |-> e["fileDetails"].stagingExecutionName]

\* dynamodb_item of record_failed_staging_in_data_catalog
failed_staging_item(e, now_ms) ==
    LET item0 ==
            [rawKey |-> e["fileDetails"].key,
             catalogTime |-> now_ms,
             rawBucket |-> e["fileDetails"].bucket,
             error |-> e["error-info"]["Error"],
             errorCause |-> error_cause(e),
             stagingExecutionName |-> e["fileDetails"].stagingExecutionName]
        item1 == IF "fileType" \in DOMAIN e
                 THEN Update(item0, "fileType", e["fileType"]) ELSE item0
        item2 == IF "contentLength" \in DOMAIN e["fileDetails"]
                 THEN Update(item1, "contentLength",
                             e["fileDetails"].contentLength)
                 ELSE item1
        item3 == IF /\ "fileSettings" \in DOMAIN e
                    /\ "stagingPartitionSettings" \in DOMAIN e["fileSettings"]
                 THEN Update(item2, "stagingPartitionSettings",
                             e["fileSettings"]["stagingPartitionSettings"])
                 ELSE item2
    IN IF "stagingBucket" \in DOMAIN e["settings"]
       THEN Update(item3, "stagingBucket", e["settings"].stagingBucket)
       ELSE item3

\* the message send_failed_staging_sns sends to a topic
FailureNotification(e, topic_arn) ==
    [TopicArn |-> topic_arn,
     Subject |-> "Data Lake - ingressed file staging failed",
     Message |-> <<"File:", e["fileDetails"].key,
                   " in Bucket:", e["fileDetails"].bucket,
                   " failed staging with error:", e["error-info"]["Error"],
                   " and cause:", json_loads(e["error-info"]["Cause"])>>]

\* the file type's failure topic, when configured
FailureTopics(e) ==
    IF "fileSettings" \in DOMAIN e
          /\ "failureSNSTopicARN" \in DOMAIN e["fileSettings"]
    THEN <<e["fileSettings"]["failureSNSTopicARN"]>> ELSE <<>>

\* the default error topic, when configured
DefaultTopics(e) ==
    IF "settings" \in DOMAIN e /\ "defaultSNSErrorArn" \in DOMAIN e["settings"]
    THEN <<e["settings"].defaultSNSErrorArn>> ELSE <<>>

\* record_failed_staging, as run by lambda_handler: the catalog record is
\* put first, then the failure topic and the default topic are notified in
\* that order; the first call that fails ends the lambda
record_failed_staging ==
    /\ pc = "start"
    /\ IF ~FailedInputsPresent(event)
       THEN /\ raised' = "KeyError"
            /\ UNCHANGED <<dataCatalog, notifications>>
       ELSE
         \E now_ms \in ClockValues,
            outcome \in {"ok", "put_item_fails", "failure_publish_fails",
                         "default_publish_fails"} :
           LET failure == [n \in DOMAIN FailureTopics(event) |->
                              FailureNotification(event,
                                                  FailureTopics(event)[n])]
               default == [n \in DOMAIN DefaultTopics(event) |->
                              FailureNotification(event,
                                                  DefaultTopics(event)[n])]
           IN /\ outcome = "failure_publish_fails" => failure # <<>>
              /\ outcome = "default_publish_fails" => default # <<>>
              /\ raised' = IF outcome = "ok" THEN "None" ELSE "ClientError"
              /\ dataCatalog' =
                   IF outcome = "put_item_fails" THEN dataCatalog
                   ELSE Append(dataCatalog,
                               failed_staging_item(event, now_ms))
              /\ notifications' =
                   CASE outcome = "put_item_fails" -> notifications
                     [] outcome = "failure_publish_fails" -> notifications
                     [] outcome = "default_publish_fails" ->
                          notifications \o failure
                     [] outcome = "ok" -> notifications \o failure \o default
    /\ event' = event
    /\ pc' = "done"
    /\ function_name' = "recordFailedStaging"
    /\ UNCHANGED laterVars
    /\ UNCHANGED <<dataSourceTable, wildcard_depths, stagingBucket, startVars,
                   workflowVars>>

----------------------------------------------------------------------------
(* The workflow that runs the lambdas *)

\* the exception class each lambda_handler raises
ExceptionOf(name) ==
    CASE name = "getFileType" -> "GetFileTypeException"
      [] name = "getFileSettings" -> "GetFileSettingsException"
      [] name = "calculateMetaDataForFile" ->
             "CalculateMetaDataForFileException"
      [] name = "attachTagsAndMetaDataToFile" ->
             "AttachTagsAndMetaDataToFileException"
      [] name = "verifyFileSchema" -> "VerifyFileSchemaException"
      [] name = "copyFileFromRawToStaging" ->
             "CopyFileFromRawToStagingException"
      [] name = "recordSuccessfulStaging" -> "RecordSuccessfulStagingException"
      [] name = "recordFailedStaging" -> "RecordFailedStagingException"

\* what the workflow records for a lambda that raised: the exception class,
\* and the JSON text of its message, type and stack trace
ErrorInfo(name, message) ==
    [Error |-> ExceptionOf(name),
     Cause |-> json_dumps([errorMessage |-> message,
                           errorType |-> ExceptionOf(name),
                           stackTrace |-> <<"lambda_handler">>])]

\* the lambdas after which the workflow ends
FinalSteps == {"recordSuccessfulStaging", "recordFailedStaging"}

\* the workflow moves to its next step: the event a lambda returned becomes
\* the state data; when the lambda raised, the state data it was given is
\* kept and the error is attached to it as error-info
next_step ==
    /\ pc = "done"
    /\ function_name \notin FinalSteps
    /\ state' = IF raised = "None" THEN event
                ELSE Update(state, "error-info",
                            ErrorInfo(function_name, raised))
    /\ event' = state'
    /\ pc' = "start"
    /\ raised' = "None"
    /\ UNCHANGED laterVars
    /\ UNCHANGED <<dataSourceTable, wildcard_depths, stagingBucket, startVars,
                   catalogVars, rawBucket, function_name>>

----------------------------------------------------------------------------
(* Inputs of the workflow *)

Metadata_owner_ops == [owner |-> <<"o","p","s">>]

Metadata_existing ==
    [owner |-> <<"r","a","w">>, origin |-> <<"u","p","l","o","a","d">>]

\* a data source with every optional setting
Item_orders ==
    [fileType |-> "orders",
     fileSettings |->
        [fileNamePattern |-> Pattern_W1,
         stagingPartitionSettings |->
            [expression |-> Expression_y, timezone |-> "UTC"],
         fileFormat |-> "json",
         calculateMD5 |-> "True",
         successSNSTopicARN |-> "arn:success",
         failureSNSTopicARN |-> "arn:failure"],
     metadata |-> Metadata_owner_ops,
     tags |-> [source |-> "lake"],
     schema |-> [type |-> "object"]]

\* a data source with no optional setting and no schema
Item_plain ==
    [fileType |-> "plain",
     fileSettings |-> [fileNamePattern |-> Pattern_W2],
     metadata |-> Metadata_owner_ops,
     tags |-> [source |-> "lake"]]

\* a data source with a schema and a file format that has no validator
Item_legacy ==
    [fileType |-> "legacy",
     fileSettings |->
        [fileNamePattern |-> Pattern_S,
         stagingFolderPath |-> Path_events,
         fileFormat |-> "xml"],
     metadata |-> NoFields,
     tags |-> NoFields,
     schema |-> [type |-> "object"]]

DataSourceTables ==
    { <<>>, <<Item_orders>>, <<Item_plain>>, <<Item_legacy>>,
      <<Item_orders, Item_plain>> }

\* the workflow starts with the input start_step_function_for_file gave it
InitWorkflow ==
    /\ dataSourceTable \in DataSourceTables
    /\ \E now \in Timestamps, id \in SampleIds :
          LET key == Key_fyx
              name == step_function_name(now, id, key)
          IN /\ now.year = 2024 /\ id[1] = "A"
             /\ executions = <<[name |-> name,
                                input |-> sfn_Input("raw", key, name)]>>
             /\ rawBucket = {RawObject(key, Metadata_existing,
                                       LastModified_20240317, Doc_flat)}
    /\ state = executions[1].input
    /\ event = state
    /\ function_name = "None"
    /\ pc = "start"
    /\ raised = "None"
    /\ wildcard_depths = <<>>
    /\ stagingBucket = {}
    /\ cache = {}
    /\ invocations = <<>>
    /\ dataCatalog = <<>>
    /\ notifications = <<>>
    /\ es = NoFields
    /\ failedBucket = {}
    /\ scan_positions = <<>>

NextWorkflow ==
    \/ get_file_type
    \/ get_file_settings
    \/ calculate_additional_metadata
    \/ attach_tags_and_metadata_to_file
    \/ verify_file_schema
    \/ copy_file_from_raw_to_staging
    \/ record_successfull_staging
    \/ record_failed_staging
    \/ next_step

SpecWorkflow == InitWorkflow /\ [][NextWorkflow]_vars

----------------------------------------------------------------------------
(* sendDataCatalogUpdateToElasticsearch.py *)

\* the variables of the staging engine
stagingEngineVars ==
    <<event, dataSourceTable, pc, raised, wildcard_depths, stagingBucket,
      cache, executions, invocations, dataCatalog, notifications, state,
      rawBucket, function_name>>

ES_MAX_RETRIES == 3

MaxPosts == 5

\* 2 ** n
RECURSIVE Pow2(_)
Pow2(n) == IF n = 0 THEN 1 ELSE 2 * Pow2(n - 1)

\* the body of a bulk response without item errors
Content_ok ==
    json_dumps([errors |-> FALSE, took |-> 5, items |-> <<>>])

\* the body of a bulk response with an item error
Content_errors ==
    json_dumps([errors |-> TRUE, took |-> 5,
                items |-> <<[index |-> [error |-> "mapper_parsing_exception"]]>>])

\* a body that is not JSON
Content_html == [text |-> <<"<","h","t","m","l",">">>]

\* the responses of the Elasticsearch endpoint
Responses ==
    {[status_code |-> 200, _content |-> c] :
        c \in {Content_ok, Content_errors, Content_html}}
      \cup {[status_code |-> 299, _content |-> Content_ok]}
      \cup {[status_code |-> code, _content |-> Content_html] :
               code \in {199, 301, 400, 404, 499, 500, 503, 599, 600}}

\* json.loads accepts the text
IsJson(text) == "json" \in DOMAIN text

\* one pass of the while loop of post_to_es, from its test to the end of the
\* try statement: the loop ends when retries reaches ES_MAX_RETRIES; a 2xx
\* response is parsed and leaves the loop through break; ES_Exception is
\* caught, and counted as a retry only for 500-599; the else clause of the
\* try is not reached because the try body ends with break
post_to_es ==
    /\ es.pc = "loop"
    /\ IF es.retries >= ES_MAX_RETRIES
       THEN es' = [es EXCEPT !.pc = "returned"]
       ELSE /\ es.posts < MaxPosts
            /\ \E res \in Responses :
                 LET seconds == IF es.retries > 0 THEN Pow2(es.retries) ELSE 0
                     sent == [es EXCEPT !.posts = @ + 1,
                                        !.slept = @ + seconds,
                                        !.res = res]
                 IN IF res.status_code >= 200 /\ res.status_code <= 299
                    THEN IF IsJson(res._content)
                         THEN es' = [sent EXCEPT !.pc = "returned"]
                         ELSE es' = [sent EXCEPT !.pc = "raised",
                                                 !.raised = "JSONDecodeError"]
                    ELSE IF res.status_code >= 500 /\ res.status_code <= 599
                    THEN es' = [sent EXCEPT !.retries = @ + 1]
                    ELSE es' = sent
    /\ UNCHANGED <<stagingEngineVars, failedBucket, scan_positions>>

\* the bulk payloads _lambda_handler builds, as their lines: none for no
\* INSERT or MODIFY record, an action line and a document line for one
Payloads ==
    { <<"">>,
      <<"{\"index\": {\"_index\": \"datacatalog\"}}", "{\"rawKey\": \"a\"}", "">> }

InitElasticsearch ==
    /\ \E payload \in Payloads :
          es = [payload |-> payload, retries |-> 0, posts |-> 0, slept |-> 0,
                res |-> None, pc |-> "loop", raised |-> "None"]
    /\ failedBucket = {}
    /\ scan_positions = <<>>
    /\ event = NoFields
    /\ state = NoFields
    /\ rawBucket = {}
    /\ function_name = "None"
    /\ dataSourceTable = <<>>
    /\ pc = "idle"
    /\ raised = "None"
    /\ wildcard_depths = <<>>
    /\ stagingBucket = {}
    /\ cache = {}
    /\ executions = <<>>
    /\ invocations = <<>>
    /\ dataCatalog = <<>>
    /\ notifications = <<>>

NextElasticsearch == post_to_es

SpecElasticsearch == InitElasticsearch /\ [][NextElasticsearch]_vars

----------------------------------------------------------------------------
(* copyFileFromRawToFailed.py *)

\* the fields copy_file_from_raw_to_failed reads
CopyToFailedInputsPresent(e) ==
    /\ {"fileDetails", "settings"} \subseteq DOMAIN e
    /\ {"bucket", "key"} \subseteq DOMAIN e["fileDetails"]
    /\ "failedBucket" \in DOMAIN e["settings"]

\* variant: the raw object is deleted before it is copied
copy_file_from_raw_to_failed_DeletesFirst ==
    /\ pc = "start"
    /\ IF ~CopyToFailedInputsPresent(event)
       THEN /\ raised' = "CopyFileFromRawToFailedException"
            /\ UNCHANGED <<rawBucket, failedBucket>>
       ELSE LET raw_key == event["fileDetails"].key
                source == {o \in rawBucket : o.Key = raw_key}
                kept == {o \in rawBucket : o.Key # raw_key}
            IN \E outcome \in {"ok", "copy_fails", "delete_fails"} :
                 /\ outcome = "ok" => source # {}
                 /\ raised' = IF outcome = "ok" THEN "None"
                              ELSE "CopyFileFromRawToFailedException"
                 /\ rawBucket' =
                      IF outcome = "delete_fails" THEN rawBucket ELSE kept
                 /\ failedBucket' =
                      IF outcome = "ok"
                      THEN {o \in failedBucket : o.Key # raw_key}
                              \cup source
                      ELSE failedBucket
    /\ event' = event
    /\ pc' = "done"
    /\ function_name' = "copyFileFromRawToFailed"
    /\ UNCHANGED <<es, scan_positions, state>>
    /\ UNCHANGED <<dataSourceTable, wildcard_depths, stagingBucket, startVars,
                   catalogVars>>

\* copy_file_from_raw_to_failed, as run by lambda_handler, which turns every
\* exception into CopyFileFromRawToFailedException: s3.copy puts the raw
\* object, as it is, under the same key into the failed bucket, then
\* s3.delete_object removes it from the raw bucket; either call can fail,
\* and s3.copy fails when there is no object to copy
copy_file_from_raw_to_failed ==
    /\ pc = "start"
    /\ IF ~CopyToFailedInputsPresent(event)
       THEN /\ raised' = "CopyFileFromRawToFailedException"
            /\ UNCHANGED <<rawBucket, failedBucket>>
       ELSE LET raw_key == event["fileDetails"].key
                source == {o \in rawBucket : o.Key = raw_key}
                kept == {o \in rawBucket : o.Key # raw_key}
            IN \E outcome \in {"ok", "copy_fails", "delete_fails"} :
                 /\ outcome # "copy_fails" => source # {}
                 /\ raised' = IF outcome = "ok" THEN "None"
                              ELSE "CopyFileFromRawToFailedException"
                 /\ failedBucket' =
                      IF outcome = "copy_fails" THEN failedBucket
                      ELSE {o \in failedBucket : o.Key # raw_key}
                              \cup source
                 /\ rawBucket' = IF outcome = "ok" THEN kept ELSE rawBucket
    /\ event' = event
    /\ pc' = "done"
    /\ function_name' = "copyFileFromRawToFailed"
    /\ UNCHANGED <<es, scan_positions, state>>
    /\ UNCHANGED <<dataSourceTable, wildcard_depths, stagingBucket, startVars,
                   catalogVars>>

\* the content of an object an earlier run left in the failed bucket
Body_stale == <<"o", "l", "d">>

\* a file that failed in the workflow is in the raw bucket, next to another
\* object; the failed bucket is empty or holds an older object with the
\* key of the file
InitCopyToFailed ==
    /\ \E key \in RawKeys, body \in {Body_small, Doc_flat},
          stale \in BOOLEAN, settings \in {[failedBucket |-> "failed"],
                                           NoFields} :
          /\ event = [fileDetails |-> [bucket |-> "raw", key |-> key],
                      settings |-> settings,
                      fileType |-> "orders"]
          /\ rawBucket = {RawObject(key, Metadata_existing,
                                    LastModified_20240317, body),
                          RawObject(Key_o, NoFields,
                                    LastModified_20240317, Body_small)}
          /\ failedBucket =
                IF stale
                THEN {RawObject(key, NoFields, LastModified_20240317,
                                Body_stale)}
                ELSE {}
    /\ state = event
    /\ dataSourceTable = <<>>
    /\ function_name = "None"
    /\ pc = "start"
    /\ raised = "None"
    /\ wildcard_depths = <<>>
    /\ stagingBucket = {}
    /\ cache = {}
    /\ executions = <<>>
    /\ invocations = <<>>
    /\ dataCatalog = <<>>
    /\ notifications = <<>>
    /\ es = NoFields
    /\ scan_positions = <<>>

NextCopyToFailed == copy_file_from_raw_to_failed

SpecCopyToFailed == InitCopyToFailed /\ [][NextCopyToFailed]_vars

----------------------------------------------------------------------------
(* Inputs of the metadata computation *)

\* the metadata of an object that went through the staging engine before
Metadata_restaged ==
    [owner |-> <<"r","a","w">>,
     staging_time |-> <<"1">>,
     created_date |-> <<"o","l","d">>,
     staged_md5 |-> <<"o","l","d">>]

\* metadata of a data source that names the fields the lambdas compute
Metadata_configured ==
    [created_date |-> <<"c","f","g">>, staged_md5 |-> <<"c","f","g">>]

ExistingMetadataValues == {NoFields, Metadata_existing, Metadata_restaged}

RequiredMetadataValues == {NoFields, Metadata_owner_ops, Metadata_configured}

CalculateMD5Values ==
    {[calculateMD5 |-> "True"], [calculateMD5 |-> "False"],
     [calculateMD5 |-> "true"], NoFields}

\* the event as getFileSettings leaves it
InitMetadata ==
    /\ \E existing \in ExistingMetadataValues,
          required \in RequiredMetadataValues,
          file_settings \in CalculateMD5Values,
          body \in {Body_small, Doc_flat} :
          /\ event = [fileDetails |-> [bucket |-> "raw", key |-> Key_fyx],
                      fileType |-> "orders",
                      fileSettings |-> file_settings,
                      requiredMetadata |-> required,
                      existingMetadata |-> existing,
                      requiredTags |-> [source |-> "lake"]]
          /\ rawBucket = {RawObject(Key_fyx, existing, LastModified_20240317,
                                    body)}
    /\ state = event
    /\ dataSourceTable = <<>>
    /\ function_name = "None"
    /\ pc = "start"
    /\ raised = "None"
    /\ wildcard_depths = <<>>
    /\ stagingBucket = {}
    /\ cache = {}
    /\ executions = <<>>
    /\ invocations = <<>>
    /\ dataCatalog = <<>>
    /\ notifications = <<>>
    /\ es = NoFields
    /\ failedBucket = {}
    /\ scan_positions = <<>>

NextMetadata ==
    \/ calculate_additional_metadata
    \/ attach_tags_and_metadata_to_file

SpecMetadata == InitMetadata /\ [][NextMetadata]_vars

----------------------------------------------------------------------------
(* Properties of the file type resolution (getFileType.py) *)

Done == pc = "done"

Key == event["fileDetails"].key

PatternOf(i) == dataSourceTable[i].fileSettings.fileNamePattern

FoldersOf(i) == Split(PatternOf(i), "/")

\* indexes, in scan order, of the data sources whose pattern matches the key
MatchingIdx == {i \in 1..Len(dataSourceTable) : FullMatch(PatternOf(i), Key)}

\* the zero-based indexes of the folders of a pattern that fail the literal test
WildcardFolders(folders) ==
    {d \in 0..(Len(folders) - 1) : ~IsLiteralFolder(folders[d + 1])}

HasWildcard(i) == WildcardFolders(FoldersOf(i)) # {}

DepthOf(i) ==
    CHOOSE d \in WildcardFolders(FoldersOf(i)) :
        \A e \in WildcardFolders(FoldersOf(i)) : d <= e

SameFolderCount == \A i, j \in MatchingIdx : Len(FoldersOf(i)) = Len(FoldersOf(j))

AllHaveWildcard == \A i \in MatchingIdx : HasWildcard(i)

\* the matching data sources with a wildcard whose depth no other exceeds
Deepest == {i \in MatchingIdx :
               /\ HasWildcard(i)
               /\ \A j \in MatchingIdx : HasWildcard(j) => DepthOf(j) <= DepthOf(i)}

Returned(t) ==
    raised = "None" /\ "fileType" \in DOMAIN event /\ event["fileType"] = t

NoType == "fileType" \notin DOMAIN event

ConfigErrors == {"NoWildcards", "InconsistentFolderDepths"}

TableIs(types) ==
    {dataSourceTable[i].fileType : i \in 1..Len(dataSourceTable)} = types

\* C1: when two or more data sources match, all with the same number of
\* folders and all with a wildcard folder, and one of them has a first
\* wildcard strictly deeper than every other, its fileType is returned.
C1_UniqueDeepestWins ==
    (Done /\ Cardinality(MatchingIdx) >= 2 /\ SameFolderCount
          /\ AllHaveWildcard /\ Cardinality(Deepest) = 1)
    => \A i \in Deepest : Returned(dataSourceTable[i].fileType)

\* three matching data sources, the deepest neither first nor last in the scan
C1_Witness ==
    /\ Done /\ Cardinality(MatchingIdx) = 3 /\ SameFolderCount
    /\ AllHaveWildcard /\ Cardinality(Deepest) = 1
    /\ \E i \in Deepest : i = 2 /\ Returned(dataSourceTable[i].fileType)

\* C2 as stated: two or more matching data sources at the maximum first
\* wildcard depth always end in the ambiguity error, whatever else matches.
C2_Original ==
    (Done /\ Cardinality(Deepest) >= 2)
    => (raised = "AmbiguousDepth" /\ NoType)

\* C2 amended: when all matching data sources have the same number of folders
\* and each has a wildcard folder, two or more of them at the maximum first
\* wildcard depth end in the ambiguity error and no type, whatever shallower
\* data sources match and whatever the scan order.
C2_TieIsAmbiguous ==
    (Done /\ SameFolderCount /\ AllHaveWildcard /\ Cardinality(Deepest) >= 2)
    => (raised = "AmbiguousDepth" /\ NoType)

\* a tie at the maximum with a shallower data source scanned between the two
C2_Witness ==
    /\ Done /\ SameFolderCount /\ AllHaveWildcard
    /\ Cardinality(MatchingIdx) = 3 /\ Deepest = {1, 3}
    /\ raised = "AmbiguousDepth" /\ NoType

\* C3 as stated: fixed/*/x and fixed/y/* both match fixed/y/x and the type
\* of fixed/y/* is returned.
C3_Original ==
    (Done /\ Key = Key_fyx /\ TableIs({"typeA", "typeB"}))
    => (/\ MatchingIdx = {1, 2}
        /\ Returned("typeB"))

\* C3 amended: fixed/\w+/x (first wildcard depth 1) and fixed/y/\w+ (first
\* wildcard depth 2) both match fixed/y/x and the type of fixed/y/\w+ is
\* returned.
C3_DeeperWildcardWins ==
    (Done /\ Key = Key_fyx /\ TableIs({"typeW1", "typeW2"}))
    => (/\ MatchingIdx = {1, 2}
        /\ \A i \in 1..2 :
              wildcard_depths[i] =
                  (IF dataSourceTable[i].fileType = "typeW1" THEN 1 ELSE 2)
        /\ Returned("typeW2"))

C3_Witness ==
    /\ Done /\ Key = Key_fyx /\ TableIs({"typeW1", "typeW2"})
    /\ dataSourceTable[1].fileType = "typeW2"
    /\ Returned("typeW2")

\* the folders holding a character outside the literal-safe set
UnsafeFolders(folders) ==
    {d \in 0..(Len(folders) - 1) :
        \E k \in 1..Len(folders[d + 1]) :
            folders[d + 1][k] \notin LiteralSafeChars}

\* the folders that are empty or hold a character outside the literal-safe set
EmptyOrUnsafeFolders(folders) ==
    {d \in 0..(Len(folders) - 1) :
        \/ folders[d + 1] = <<>>
        \/ \E k \in 1..Len(folders[d + 1]) :
              folders[d + 1][k] \notin LiteralSafeChars}

Least(S) == CHOOSE d \in S : \A e \in S : d <= e

\* the matching data sources in scan order
Matching == filter_matching_data_sources(Key, dataSourceTable)

C5_SingleMatchReturned ==
    (Done /\ Cardinality(MatchingIdx) = 1)
    => \A i \in MatchingIdx : Returned(dataSourceTable[i].fileType)

\* the only matching data source has no wildcard folder, others do not match
C5_Witness ==
    /\ Done /\ Cardinality(MatchingIdx) = 1 /\ Len(dataSourceTable) >= 2
    /\ \E i \in MatchingIdx :
          ~HasWildcard(i) /\ Returned(dataSourceTable[i].fileType)

\* C6: when no data source matches the key (the table may be empty), the
\* no-match error is raised and the event gets no fileType.
C6_NoMatchRaises ==
    (Done /\ MatchingIdx = {}) => (raised = "NoMatch" /\ NoType)

C6_Witness ==
    /\ Done /\ MatchingIdx = {} /\ Len(dataSourceTable) >= 1
    /\ raised = "NoMatch" /\ NoType

\* C7: when two or more data sources match and one of them has no wildcard
\* folder, a configuration error is raised and no type is returned, even when
\* another one is alone at the deepest wildcard.
C7_NoWildcardIsConfigError ==
    (Done /\ Cardinality(MatchingIdx) >= 2
          /\ \E i \in MatchingIdx : ~HasWildcard(i))
    => (raised \in ConfigErrors /\ NoType)

\* a pattern without wildcard scanned after the lone deepest wildcard
C7_Witness ==
    /\ Done /\ Cardinality(MatchingIdx) >= 2 /\ SameFolderCount
    /\ Cardinality(Deepest) = 1
    /\ \E i \in MatchingIdx : \E j \in Deepest : ~HasWildcard(i) /\ j < i
    /\ raised = "NoWildcards" /\ NoType

\* the first matching data source, in scan order, whose number of folders
\* differs from that of the first matching one
FirstMismatch ==
    Least({i \in 1..Len(Matching) :
              Len(Split(Matching[i].fileSettings.fileNamePattern, "/"))
                  # Len(Split(Matching[1].fileSettings.fileNamePattern, "/"))})

NoWildcardBeforeMismatch ==
    \E i \in 1..(FirstMismatch - 1) :
        WildcardFolders(
            Split(Matching[i].fileSettings.fileNamePattern, "/")) = {}

\* C8 as stated: matching data sources with different numbers of folders end
\* in the inconsistent-folder-depths error, in every scan order.
C8_Original ==
    (Done /\ Cardinality(MatchingIdx) >= 2 /\ ~SameFolderCount)
    => (raised = "InconsistentFolderDepths" /\ NoType)

\* C8 amended: matching data sources with different numbers of folders end in
\* a configuration error and no type in every scan order; the error is the
\* inconsistent-folder-depths one unless a data source scanned before the
\* first mismatch has no wildcard folder, and then it is the missing-wildcard
\* one.
C8_InconsistentDepthsIsConfigError ==
    (Done /\ Cardinality(MatchingIdx) >= 2 /\ ~SameFolderCount)
    => /\ NoType
       /\ raised = (IF NoWildcardBeforeMismatch
                    THEN "NoWildcards" ELSE "InconsistentFolderDepths")

\* the mismatch is met at the third matching data source
C8_Witness ==
    /\ Done /\ Cardinality(MatchingIdx) = 3 /\ ~SameFolderCount
    /\ FirstMismatch = 3
    /\ raised = "InconsistentFolderDepths" /\ NoType

----------------------------------------------------------------------------
(* Properties of the staging key (copyFileFromRawToStaging.py) *)

FileSettings == event["fileSettings"]

Staged == Done /\ "stagingKey" \in DOMAIN event["fileDetails"]

StagingKey == event["fileDetails"].stagingKey

HasDoubledSlash(s) ==
    \E i \in 1..(Len(s) - 1) : s[i] = "/" /\ s[i + 1] = "/"

\* C9: the staging key of every staged file holds no doubled '/', so that
\* collapsing doubled slashes once more leaves it unchanged.
C9_Original ==
    Staged => /\ ~HasDoubledSlash(StagingKey)
              /\ Replace(StagingKey, <<"/", "/">>, <<"/">>) = StagingKey

\* C10: without stagingFolderPath and stagingPartitionSettings, a raw key
\* that holds a '/' has as folder path the key up to and including its last
\* '/', and is staged under the raw key itself.
C10_Original ==
    (Staged /\ DOMAIN FileSettings = {}
            /\ \E i \in 1..Len(Key) : Key[i] = "/")
    => /\ \E n \in 1..Len(Key) :
             /\ Key[n] = "/"
             /\ \A m \in (n + 1)..Len(Key) : Key[m] # "/"
             /\ get_folder_path_from_key(Key) = SubSeq(Key, 1, n)
       /\ StagingKey = Key

\* the values the staging key is computed from
FolderOverride == FileSettings["stagingFolderPath"]

HasOverride == "stagingFolderPath" \in DOMAIN FileSettings

HasPartition == "stagingPartitionSettings" \in DOMAIN FileSettings

FileName == event["fileDetails"].fileName

\* the creation time formatted by the partition expression in its time zone
FormattedPartition ==
    LET settings == FileSettings["stagingPartitionSettings"]
    IN strftime(astimezone(parser_parse(event["attachedMetadata"].created_date),
                           gettz(settings.timezone)),
                settings.expression)

\* two path parts joined by a single '/', the '/' that ends the first part
\* serving as the separator
JoinSingle(a, b) ==
    IF a # <<>> /\ a[Len(a)] = "/" THEN a \o b ELSE a \o <<"/">> \o b

Partition_2024 == <<"y","e","a","r","=","2","0","2","4">>     \* year=2024

FileName_data == <<"d","a","t","a",".","j","s","o","n">>     \* data.json

\* staging/events/year=2024/data.json
StagingKey_example ==
    Path_events \o <<"/">> \o Partition_2024 \o <<"/">> \o FileName_data

IsExample ==
    /\ HasOverride /\ HasPartition
    /\ FolderOverride = Path_events
    /\ FormattedPartition = Partition_2024
    /\ FileName = FileName_data

\* an occurrence of '/' identifier '=' digits, the text that the partition
\* removal deletes
HasPartitionOccurrence(s) == \E i \in 1..Len(s) : PartitionMatchEnd(s, i) # 0

IsPartitionSegment(seg) ==
    \E k \in 2..(Len(seg) - 1) :
        /\ seg[k] = "="
        /\ \A j \in 1..(k - 1) : seg[j] \in WordChars
        /\ \A j \in (k + 1)..Len(seg) : seg[j] \in Digits

\* C12: when partition settings are given, the staging key ends with the
\* segments of the new partition string and the file name, and no segment
\* before them has the form identifier '=' digits.
C12_Original ==
    (Staged /\ HasPartition)
    => LET segs == Split(StagingKey, "/")
           psegs == Split(FormattedPartition, "/")
           n == Len(segs)
           m == Len(psegs)
       IN /\ n >= m + 1
          /\ SubSeq(segs, n - m, n - 1) = psegs
          /\ segs[n] = FileName
          /\ \A i \in 1..(n - m - 1) : ~IsPartitionSegment(segs[i])

----------------------------------------------------------------------------
(* Properties of the start lambda (startFileProcessing.py) *)

\* the invocations that carry request id rid
SameRequest(rid) ==
    {i \in DOMAIN invocations : invocations[i].aws_request_id = rid}

\* the invocations whose conditional insert succeeded
Claimers(rid) ==
    {i \in SameRequest(rid) : invocations[i].in_cache = "False"}

\* the invocations whose conditional insert was evaluated by the table
Evaluated(rid) ==
    {i \in SameRequest(rid) : invocations[i].in_cache # "unknown"}

\* the invocations that started a workflow execution
Starters(is) == {i \in is : invocations[i].started > 0}

\* C13: among the invocations that carry the same request id, the conditional
\* insert succeeds for exactly one of those that reached the table, at most
\* one starts a workflow execution, and every other one returns the event
\* without starting anything.
C13_OneClaimPerRequestId ==
    \A rid \in RequestIds :
        /\ Cardinality(Claimers(rid)) <= 1
        /\ Evaluated(rid) # {} => Cardinality(Claimers(rid)) = 1
        /\ Cardinality(Starters(SameRequest(rid))) <= 1
        /\ \A i \in Evaluated(rid) \ Claimers(rid) :
              invocations[i].started = 0 /\ invocations[i].pc = "done"

C13_Witness ==
    \E i, j \in DOMAIN invocations :
        /\ i # j
        /\ invocations[i].aws_request_id = invocations[j].aws_request_id
        /\ invocations[i].in_cache = "False" /\ invocations[i].started = 1
        /\ invocations[j].in_cache = "True" /\ invocations[j].pc = "done"
        /\ Len(executions) = 1

\* the file arrivals: the sequencers of the delivered S3 records
Arrivals ==
    UNION {{invocations[i].Records[k].s3.object.sequencer :
                k \in DOMAIN invocations[i].Records} :
           i \in DOMAIN invocations}

\* the invocations to which file arrival e was delivered
Deliveries(e) ==
    {i \in DOMAIN invocations :
        \E k \in DOMAIN invocations[i].Records :
            invocations[i].Records[k].s3.object.sequencer = e}

RequestIdsOf(is) == {invocations[i].aws_request_id : i \in is}

\* C14 as stated: at most one workflow execution is started per file arrival,
\* also when the arrival is delivered under different request ids.
C14_Original ==
    \A e \in Arrivals : Cardinality(Starters(Deliveries(e))) <= 1

\* C14: the deduplication is by request id alone. A file arrival starts at
\* most one execution per distinct request id under which it is delivered,
\* and a delivery is turned away only when another invocation with the same
\* request id holds the claim.
C14_OnePerRequestIdOfArrival ==
    /\ \A e \in Arrivals :
          Cardinality(Starters(Deliveries(e)))
              <= Cardinality(RequestIdsOf(Deliveries(e)))
    /\ \A i \in DOMAIN invocations :
          invocations[i].in_cache = "True"
              => \E j \in DOMAIN invocations :
                    /\ j # i
                    /\ invocations[j].aws_request_id
                          = invocations[i].aws_request_id
                    /\ invocations[j].in_cache = "False"

C14_Witness ==
    \E e \in Arrivals : \E i, j \in Deliveries(e) :
        /\ invocations[i].aws_request_id # invocations[j].aws_request_id
        /\ invocations[i].started = 1 /\ invocations[j].started = 1
        /\ Len(executions) >= 2

\* the positions of key that survive sanitization: the word characters and
\* the first character of every run of non-word characters
KeptPositions(key) ==
    {i \in 1..Len(key) :
        key[i] \in WordChars \/ i = 1 \/ key[i - 1] \in WordChars}

\* key with every run of non-word characters replaced by a single '_'
Sanitized(key) ==
    LET kept == KeptPositions(key)
        nth(k) == CHOOSE i \in kept : Cardinality({j \in kept : j <= i}) = k
    IN [k \in 1..Cardinality(kept) |->
           IF key[nth(k)] \in WordChars THEN key[nth(k)] ELSE "_"]

PrefixLen == 20 + IdSize + 1

\* C17: every execution name is at most 80 characters long, begins with 20
\* digits, then 6 characters among A-Z and 0-9, then '_', consists of word
\* characters only, and continues with the sanitized key, of which only a
\* tail is missing, and only when the whole name would exceed 80 characters.
C17_ExecutionName ==
    \A n \in 1..Len(executions) :
        LET name == executions[n].name
            keystring == Sanitized(executions[n].input.fileDetails.key)
            rest == Len(name) - PrefixLen
        IN /\ Len(name) <= StepFunctionNameLimit
           /\ Len(name) >= PrefixLen
           /\ \A k \in 1..20 : name[k] \in Digits
           /\ \A k \in 21..(20 + IdSize) : name[k] \in UpperCase \cup Digits
           /\ name[PrefixLen] = "_"
           /\ \A k \in 1..Len(name) : name[k] \in WordChars
           /\ rest <= Len(keystring)
           /\ SubSeq(name, PrefixLen + 1, Len(name)) = SubSeq(keystring, 1, rest)
           /\ rest < Len(keystring) => Len(name) = StepFunctionNameLimit
           /\ executions[n].input.fileDetails.stagingExecutionName = name

C17_Witness ==
    \E n \in 1..Len(executions) :
        LET key == executions[n].input.fileDetails.key
        IN /\ Len(executions[n].name) = StepFunctionNameLimit
           /\ PrefixLen + Len(Sanitized(key)) > StepFunctionNameLimit
           /\ \E i \in 1..(Len(key) - 1) :
                 key[i] \notin WordChars /\ key[i + 1] \notin WordChars

----------------------------------------------------------------------------
(* Properties of the workflow steps *)

\* a lambda runs: the step from its start to its return or raise
Runs(name) == pc = "start" /\ pc' = "done" /\ function_name' = name

\* the file was staged: the event holds what the staging steps attach
SuccessfullyStaged ==
    /\ SuccessInputsPresent(event)
    /\ \E o \in stagingBucket : o.key = event["fileDetails"].stagingKey

\* the items the step put into the data catalog
NewRecords == SubSeq(dataCatalog', Len(dataCatalog) + 1, Len(dataCatalog'))

\* the messages the step published
NewNotifications ==
    SubSeq(notifications', Len(notifications) + 1, Len(notifications'))

\* C15 as stated: for every successfully staged file, with or without
\* stagingPartitionSettings, record_successfull_staging writes exactly one
\* catalog record with rawKey, rawBucket, catalogTime, stagingKey,
\* stagingBucket and fileType, unless the table itself refuses the put.
C15_Original ==
    [][(Runs("recordSuccessfulStaging") /\ SuccessfullyStaged)
          => \/ raised' = "ClientError" /\ NewRecords = <<>>
             \/ /\ Len(NewRecords) = 1
                /\ {"rawKey", "rawBucket", "catalogTime", "stagingKey",
                    "stagingBucket", "fileType"} \subseteq DOMAIN NewRecords[1]
                /\ NewRecords[1].rawKey = event["fileDetails"].key
                /\ NewRecords[1].stagingKey = event["fileDetails"].stagingKey
                /\ NewRecords[1].fileType = event["fileType"]]_vars

\* the topics record_failed_staging has to notify, in order
FailureTopicsOf(e) ==
    (IF "fileSettings" \in DOMAIN e
        /\ "failureSNSTopicARN" \in DOMAIN e["fileSettings"]
     THEN <<e["fileSettings"]["failureSNSTopicARN"]>> ELSE <<>>)
    \o <<e["settings"].defaultSNSErrorArn>>

\* C16: whenever record_failed_staging runs on an event that holds
\* error-info, whichever of fileType, fileSettings and contentLength is
\* absent, it publishes nothing unless it has written its record; when it
\* returns it has written exactly one record, with rawKey, rawBucket,
\* catalogTime, error and errorCause, and has notified the file type's
\* failure topic when configured and then the default error topic; it writes
\* no record only when the table refuses the put.
C16_RecordThenNotify ==
    [][(Runs("recordFailedStaging") /\ "error-info" \in DOMAIN event)
          => /\ Len(NewRecords) <= 1
             /\ NewNotifications # <<>> => Len(NewRecords) = 1
             /\ NewRecords = <<>>
                   => raised' = "ClientError" /\ NewNotifications = <<>>
             /\ Len(NewRecords) = 1
                   => /\ {"rawKey", "rawBucket", "catalogTime", "error",
                          "errorCause"} \subseteq DOMAIN NewRecords[1]
                      /\ NewRecords[1].rawKey = event["fileDetails"].key
                      /\ NewRecords[1].rawBucket = event["fileDetails"].bucket
                      /\ NewRecords[1].error = event["error-info"]["Error"]
             /\ raised' = "None"
                   => /\ Len(NewRecords) = 1
                      /\ [n \in DOMAIN NewNotifications |->
                             NewNotifications[n].TopicArn]
                            = FailureTopicsOf(event)]_vars

\* record_failed_staging has returned for a failure of the first step, with
\* no fileType, fileSettings or contentLength in the event
C16_Witness ==
    /\ function_name = "recordFailedStaging" /\ pc = "done"
    /\ raised = "None"
    /\ "fileType" \notin DOMAIN event
    /\ "fileSettings" \notin DOMAIN event
    /\ "contentLength" \notin DOMAIN event["fileDetails"]
    /\ Len(dataCatalog) = 1
    /\ dataCatalog[1].error = "GetFileTypeException"
    /\ Len(notifications) = 1

\* C18: every field of the state data, and of its fileDetails, is still
\* there after a workflow step, and every field of the event a lambda is
\* given, and of its fileDetails, is still there when the lambda ends.
C18_StepsOnlyAddFields ==
    [][/\ DOMAIN state \subseteq DOMAIN state'
       /\ DOMAIN state["fileDetails"] \subseteq DOMAIN state'["fileDetails"]
       /\ pc = "start"
             => /\ DOMAIN event \subseteq DOMAIN event'
                /\ DOMAIN event["fileDetails"]
                      \subseteq DOMAIN event'["fileDetails"]]_vars

\* the state data holds what every step adds, error-info included
C18_Witness ==
    /\ {"fileType", "schema", "fileSettings", "requiredMetadata",
        "requiredTags", "existingMetadata", "combinedMetadata",
        "attachedMetadata", "error-info"} \subseteq DOMAIN state
    /\ {"contentLength", "stagingKey"} \subseteq DOMAIN state["fileDetails"]

\* the file reference of an event
FileReference(e) ==
    <<e["fileDetails"].bucket, e["fileDetails"].key, e["fileDetails"].fileName>>

\* C19: bucket, key and fileName of fileDetails keep the values the workflow
\* was started with, in the state data and in the event of every lambda.
C19_FileReferenceKept ==
    /\ {"bucket", "key", "fileName"} \subseteq DOMAIN state["fileDetails"]
    /\ {"bucket", "key", "fileName"} \subseteq DOMAIN event["fileDetails"]
    /\ FileReference(state) = FileReference(executions[1].input)
    /\ FileReference(event) = FileReference(executions[1].input)

\* both steps that update fileDetails have run
C19_Witness ==
    /\ {"contentLength", "stagingKey"} \subseteq DOMAIN state["fileDetails"]
    /\ state["fileDetails"].key = Key_fyx
    /\ state["fileDetails"].fileName = <<"x">>

----------------------------------------------------------------------------
(* Properties of the Elasticsearch lambda *)

\* a POST was sent in this step and failed with the given status
PostFailed(code) ==
    /\ es.pc = "loop" /\ es'.posts = es.posts + 1
    /\ es'.res.status_code = code
    /\ code < 200 \/ code > 299

\* C21 as stated: whatever the responses are, post_to_es sends at most
\* ES_MAX_RETRIES POSTs.
C21_Original == es.posts <= ES_MAX_RETRIES

\* C22 as stated: a POST that fails with a status outside 500-599 ends
\* post_to_es by raising, and a further POST is sent only after a failure
\* with status 500-599.
C22_Original ==
    [][/\ \A code \in {r.status_code : r \in Responses} :
             (PostFailed(code) /\ (code < 500 \/ code > 599))
                 => es'.pc = "raised"
       /\ (es.posts > 0 /\ es'.posts = es.posts + 1)
             => es.res.status_code >= 500 /\ es.res.status_code <= 599]_vars

----------------------------------------------------------------------------
(* Further properties of the start lambda *)

\* the decoded keys of the records of invocation i that are not folders
FileRecords(i) ==
    {k \in DOMAIN invocations[i].Records :
        LET key == unquote_plus(invocations[i].Records[k].s3.object.key)
        IN key = <<>> \/ key[Len(key)] # "/"}

\* the executions started for the record k of invocation i
ExecutionsFor(i, k) ==
    {n \in DOMAIN executions :
        executions[n].input.fileDetails.key
            = unquote_plus(invocations[i].Records[k].s3.object.key)}

\* C23 as stated: an invocation that claimed its request id and returned
\* has started one workflow execution for every record whose decoded key
\* does not end with '/'.
C23_Original ==
    \A i \in DOMAIN invocations :
        (invocations[i].in_cache = "False" /\ invocations[i].pc = "done")
            => /\ invocations[i].started = Cardinality(FileRecords(i))
               /\ \A k \in FileRecords(i) : ExecutionsFor(i, k) # {}

\* invocation i ends in this step because start_execution failed
StartFails(i) ==
    invocations[i].pc = "process" /\ invocations'[i].pc = "raised"

\* C24: when start_execution fails, at most one record is put into the data
\* catalog, with rawKey, rawBucket, catalogTime, error and errorCause, the
\* cause being the error of start_execution; no record is put only when the
\* put itself fails, and that failure is swallowed: in both cases the error
\* of start_execution is the one raised, and no execution is started.
C24_RecordThenReraise ==
    [][\A i \in DOMAIN invocations :
          StartFails(i)
              => /\ invocations'[i].raised = StartExecutionError
                 /\ executions' = executions
                 /\ Len(NewRecords) <= 1
                 /\ Len(NewRecords) = 1
                       => /\ DOMAIN NewRecords[1]
                                = {"rawKey", "rawBucket", "catalogTime",
                                   "error", "errorCause"}
                          /\ NewRecords[1].errorCause.errorMessage
                                = StartExecutionError
                          /\ \E k \in FileRecords(i) :
                                NewRecords[1].rawKey =
                                   unquote_plus(invocations[i].Records[k]
                                                    .s3.object.key)]_vars

\* one invocation raised after its failure record was written, another
\* raised though the write of its failure record failed
C24_Witness ==
    /\ Len(dataCatalog) = 1
    /\ Cardinality({i \in DOMAIN invocations :
                       /\ invocations[i].pc = "raised"
                       /\ invocations[i].raised = StartExecutionError}) = 2

\* C25: start_file_processing never removes a request id from the cache,
\* and an invocation whose request id is in the cache when its conditional
\* insert is evaluated returns the event: it starts nothing and raises
\* nothing, also when the invocation that claimed the id failed to start
\* the workflow.
C25_ClaimIsKept ==
    [][/\ cache \subseteq cache'
       /\ \A i \in DOMAIN invocations :
             (/\ invocations[i].pc = "check"
              /\ invocations[i].aws_request_id \in cache
              /\ invocations'[i].in_cache # "unknown")
                 => /\ invocations'[i].in_cache = "True"
                    /\ invocations'[i].pc = "done"
                    /\ invocations'[i].raised = "None"
                    /\ invocations'[i].started = 0
                    /\ executions' = executions]_vars

\* an invocation was turned away after the claimer of its request id failed
\* to start the workflow
C25_Witness ==
    \E i, j \in DOMAIN invocations :
        /\ invocations[i].aws_request_id = invocations[j].aws_request_id
        /\ invocations[i].pc = "raised"
        /\ invocations[i].raised = StartExecutionError
        /\ invocations[j].in_cache = "True" /\ invocations[j].pc = "done"
        /\ executions = <<>>

----------------------------------------------------------------------------
(* Properties of the json verification (verifyFileSchema.py) *)

\* the lambda has loaded the content and returned or raised
Verified ==
    /\ pc = "done" /\ function_name = "verifyFileSchema"
    /\ raised \in {"None", "VerifyFileSchemaException"}

\* the keys of the top-level object of a document
TopLevelKeys(doc) ==
    CASE doc = Doc_flat -> {<<"a">>}
      [] doc = Doc_nested -> {<<"a">>}
      [] doc = Doc_brackets -> {<<"k">>}
      [] OTHER -> {}

\* the document is not what the schema asks for
Violates(doc, schema) ==
    LET kind == IF doc[1] = "{" THEN "object" ELSE "array"
    IN \/ kind # schema["type"]
       \/ /\ "required" \in DOMAIN schema
          /\ ~(schema["required"] \subseteq TopLevelKeys(doc))

\* the index, counted from 0, at which the k-th document starts
StartOf(docs, sep, k) == Len(Join(SubSeq(docs, 1, k), sep)) - Len(docs[k])

\* C26: for content that is a concatenation of objects and arrays, the
\* scan visits the start of each document in order, up to and including the
\* first one that violates the schema; the lambda raises
\* VerifyFileSchemaException exactly when there is such a document and
\* accepts the content otherwise; the scan position grows with every
\* iteration.
C26_EachDocumentInOrder ==
    Verified =>
        /\ \A k \in 1..(Len(scan_positions) - 1) :
              scan_positions[k] < scan_positions[k + 1]
        /\ \A docs \in DocumentLists, sep \in Separators :
              (\E o \in rawBucket : o.Body = Join(docs, sep))
                 => LET bad == {k \in 1..Len(docs) :
                                   Violates(docs[k], event["schema"])}
                        last == IF bad = {} THEN Len(docs)
                                ELSE CHOOSE k \in bad :
                                        \A j \in bad : k <= j
                    IN /\ (raised = "None") <=> (bad = {})
                       /\ scan_positions =
                             [k \in 1..last |-> StartOf(docs, sep, k)]

\* three documents were scanned, the last of them violates the schema
C26_Witness ==
    /\ Verified
    /\ raised = "VerifyFileSchemaException"
    /\ Len(scan_positions) = 3
    /\ \E o \in rawBucket : Len(o.Body) > scan_positions[3] + Len(Doc_flat)

----------------------------------------------------------------------------
(* Properties of the copy to the failed bucket (copyFileFromRawToFailed.py) *)

\* the object is the file of the event, not something older under its key
IsTheFile(o) == o.Key = event["fileDetails"].key /\ o.Body # Body_stale

\* C27: in every state, before the lambda ran, after it returned and after
\* it raised, the file of the event is in the raw bucket or in the failed
\* bucket.
C27_FileNeverLost ==
    \E o \in rawBucket \cup failedBucket : IsTheFile(o)

\* the lambda returned: the file is in the failed bucket and no longer in
\* the raw bucket
C27_Witness ==
    /\ pc = "done" /\ function_name = "copyFileFromRawToFailed"
    /\ raised = "None"
    /\ \E o \in failedBucket : IsTheFile(o)
    /\ ~\E o \in rawBucket : IsTheFile(o)

----------------------------------------------------------------------------
(* The order of the scan (getFileType.py) *)

\* the orders in which n data sources can come out of the scan
Orders(n) ==
    {p \in [1..n -> 1..n] : \A i, j \in 1..n : i # j => p[i] # p[j]}

\* the table as the scan returns it in the order p
Reordered(table, p) == [i \in 1..Len(table) |-> table[p[i]]]

\* C28: what getFileType returned or raised for the key is what it returns
\* or raises for every other order of the same data sources: the same type
\* name in every order, or an exception in every order.
C28_OrderDoesNotMatter ==
    Done =>
        \A p \in Orders(Len(dataSourceTable)) :
            LET matching_data_sources ==
                    filter_matching_data_sources(
                        Key, Reordered(dataSourceTable, p))
                filetype ==
                    get_most_specific_filetype(Key, matching_data_sources)
            IN IF raised = "None"
               THEN filetype.error = "None" /\ Returned(filetype.value)
               ELSE filetype.error # "None"

\* three data sources match and the type of the last one scanned is returned
C28_Witness ==
    /\ Done /\ Cardinality(MatchingIdx) = 3
    /\ Returned(dataSourceTable[3].fileType)

----------------------------------------------------------------------------
(* Properties of the metadata computation *)

\* the lambdas that compute the metadata and the event field each adds
MetadataSteps ==
    [calculateMetaDataForFile |-> "combinedMetadata",
     attachTagsAndMetaDataToFile |-> "attachedMetadata"]

\* the fields the lambdas compute for the event e
ComputedKeys(e) ==
    {"staging_time", "created_date"}
        \cup (IF "calculateMD5" \in DOMAIN e["fileSettings"]
                 /\ e["fileSettings"]["calculateMD5"] = "True"
              THEN {"staged_md5"} ELSE {})

\* C29: the metadata a step computes has the keys of existingMetadata, of
\* requiredMetadata and the computed ones, staged_md5 being computed exactly
\* when calculateMD5 is 'True'; a computed key has the computed value, any
\* other key the required value when there is one and the existing value
\* otherwise; and it is the mapping the other step computes for the same
\* event, clock and object.
C29_MetadataMerged ==
    [][\A name \in DOMAIN MetadataSteps :
          (Runs(name) /\ raised' = "None")
             => LET m == event'[MetadataSteps[name]]
                    existing == event["existingMetadata"]
                    required == event["requiredMetadata"]
                    key == event["fileDetails"].key
                    object == CHOOSE o \in rawBucket : o.Key = key
                IN /\ DOMAIN m = DOMAIN existing \cup DOMAIN required
                                    \cup ComputedKeys(event)
                   /\ \A k \in DOMAIN m \ ComputedKeys(event) :
                         m[k] = IF k \in DOMAIN required THEN required[k]
                                ELSE existing[k]
                   /\ \E now_ms \in StagingClockValues :
                         /\ m["staging_time"] = IntToStr(now_ms)
                         /\ m = attached_metadata(event, now_ms)
                         /\ m = calculate_additional_metadata_result(
                                    event, now_ms)["combinedMetadata"]
                   /\ m["created_date"] = str_datetime(object.LastModified)
                   /\ "staged_md5" \in ComputedKeys(event)
                         => m["staged_md5"]
                               = <<"m","d","5","(">> \o object.Body
                                    \o <<")">>]_vars

\* the metadata was attached to a file whose owner is set by the object and
\* by the data source, that carried metadata of an earlier staging, and
\* whose MD5 was asked for
C29_Witness ==
    /\ pc = "done" /\ function_name = "attachTagsAndMetaDataToFile"
    /\ raised = "None"
    /\ state["existingMetadata"] = Metadata_restaged
    /\ state["requiredMetadata"] = Metadata_owner_ops
    /\ event["attachedMetadata"]["owner"] = Metadata_owner_ops["owner"]
    /\ event["attachedMetadata"]["staged_md5"]
          # Metadata_restaged["staged_md5"]

\* C30 as stated: a metadata step that returns leaves requiredMetadata and
\* existingMetadata as they were and adds one field to the event,
\* combinedMetadata or attachedMetadata.
C30_Original ==
    [][\A name \in DOMAIN MetadataSteps :
          (Runs(name) /\ raised' = "None")
             => /\ event'["requiredMetadata"] = event["requiredMetadata"]
                /\ event'["existingMetadata"] = event["existingMetadata"]
                /\ DOMAIN event' = DOMAIN event \cup {MetadataSteps[name]}]_vars

====
